---------------------------- MODULE Spec2Model ----------------------------
(***************************************************************************)
(* A model of AnkiTool: the console menu (anki_interactive.py) and the web *)
(* API (app.py) over AnkiConnectClient and LLMClient.                      *)
(*                                                                         *)
(* Part 1 models LLMClient.generate_note's post-processing of the LLM      *)
(* result (a pure function over character strings) under SpecSuggest.      *)
(* Part 2 models the request handlers and the console menu under Spec.     *)
(* Single calls and the two files the web API rewrites have their own       *)
(* specifications.                                                          *)
(***************************************************************************)
EXTENDS Integers, Sequences, FiniteSets, TLC

VARIABLES
    \* ---- Part 1: one call of LLMClient.generate_note
    gn_pc,          \* "call" before the call, "returned" / "raised" after it
    gn_word,        \* the argument word, a sequence of characters
    gn_model_name,  \* the argument model_name
    gn_llm,         \* what the provider backend produced
    gn_result,      \* the dict generate_note returned
    invoke_call,    \* one call of AnkiConnectClient._invoke
    search_call,    \* the pagination of one search_notes request
    posting,        \* two POST /api/model_instructions requests in flight
    env_call,       \* one POST /api/settings and the .env file it rewrites
    \* ---- Part 2: the two front ends
    front,          \* "web" (app.py) or "console" (anki_interactive.py main)
    pc,             \* position of the process
    handler,        \* the route handler / menu option being run
    req_valid,      \* web: the request passed the handler's own argument check
    req_options,    \* web: the 'options' of the note submitted to add_note
    req_body,       \* web: the body posted to /api/model_instructions
    n_items,        \* number of input items of the current batch
    idx,            \* loop iterations started in the current batch
    results,        \* the handler's results list
    fields,         \* the function-local 'fields' (0: unbound, i: generated for item i)
    successful,     \* batch_import_from_file counter
    failed,         \* batch_import_from_file counter
    added_count,    \* option 8 counter
    response,       \* the HTTP response of the current request
    raised,         \* where the exception caught by the outermost except came from
    calls,          \* AnkiConnect actions invoked during the current request
    svc_err,        \* some AnkiConnect call of the current request failed
    printed,        \* console: kinds of messages printed by the last step
    auto_add,       \* console option 8: auto_add
    typed,          \* console option 8: the answer typed at the last add prompt
    instrDisk,      \* model_instructions.json
    instrMem,       \* console: the model_instructions dict held by main()
    env_port,       \* os.getenv("ANKI_PORT", "8765")
    llm_available,  \* console: llm_available
    llm_provider,   \* the configured llm_provider
    api_key,        \* the API-key variable of the configured provider is set
    llm_client,     \* the provider of the LLMClient that was built
    last_post       \* web: the anki_port of the POST /api/settings that just succeeded

gnVars == <<gn_pc, gn_word, gn_model_name, gn_llm, gn_result>>

\* The calls that are modelled on their own, apart from the front ends.
fileVars == <<posting, env_call>>

pureVars == <<gnVars, invoke_call, search_call, fileVars>>

conVars == <<successful, failed, added_count, printed, auto_add, typed>>

reqVars == <<handler, req_valid, req_options, req_body, n_items, idx, results, fields, response, raised, calls,
             svc_err, conVars>>

persistVars == <<instrDisk, instrMem, env_port, llm_available>>

\* Chosen when the process starts and left alone by every handler.
fixedVars == <<front, llm_provider, api_key>>

vars == <<gn_pc, gn_word, gn_model_name, gn_llm, gn_result, invoke_call, search_call,
          posting, env_call,
          front, pc, handler, req_valid, req_options, req_body, n_items, idx, results, fields, successful, failed,
          added_count, response, raised, calls, svc_err, printed, auto_add, typed,
          instrDisk, instrMem, env_port, llm_available, llm_provider, api_key,
          llm_client, last_post>>

-----------------------------------------------------------------------------
(* Bounds *)

MaxWordLen == 3
MaxPatLen == 4
MaxWords == 3
MaxTyped == 2
MaxIds == 3
MaxPage == 4
MaxPerPage == 3
MaxLines == 2

-----------------------------------------------------------------------------
(* Values shared by the two parts *)

THPTQG == "THPTQG form"
ModelNames == {THPTQG, "Basic"}

\* ---- model_instructions.json: model name -> instruction
\* An instruction is a string (plain text, JSON text or empty) or a dict;
\* Absent marks a model name that is no key of the document.
Absent == "absent"
StrPlain == "str:plain"
StrJson == "str:{d1}"
StrEmpty == "str:"
DictD1 == "dict:{d1}"
InstrValues == {StrPlain, StrJson, StrEmpty, DictD1}
Docs == [ModelNames -> InstrValues \cup {Absent}]
EmptyDoc == [m \in ModelNames |-> Absent]

\* request.json of POST /api/model_instructions (lines 89-91)
Body(model_name, instruction) == [model_name |-> model_name, instruction |-> instruction]
NoBody == Body("", Absent)

IsStr(v) == v \in {StrPlain, StrJson, StrEmpty}
IsDict(v) == v = DictD1

\* json.loads on a string: the parsed value, or a JSONDecodeError
JsonLoadsOk(v) == v = StrJson
JsonLoads(v) == IF v = StrJson THEN DictD1 ELSE v

\* ---- AnkiConnectClient
\* The methods the class defines (lines 65-87).
ClientMethods == {"get_deck_names", "create_deck", "get_model_field_names",
                  "get_model_names", "can_add_notes", "add_notes",
                  "find_notes", "notes_info"}

\* What the service can answer to one POST: a reply without error value, a
\* reply with an error value, or no reply at all (requests raises).
SvcReplies == {"ok", "error_value", "unreachable"}

\* _invoke raises on raise_for_status / connection failure and on result["error"]
InvokeRaises(reply) == reply # "ok"

\* One invoked action with the notes it carries: <<[item, options]>>.
\* A call without a recorded reply.
NoAnswer == ""

\* One action sent to the service.  `answer` is the reply to a call with a
\* single note: "true" / "false" from canAddNotes, "id" / "null" from
\* addNotes, "raised" when _invoke raised.
Answered(action, notes, answer) ==
    [action |-> action, notes |-> notes, answer |-> answer]

Call(action, notes) == Answered(action, notes, NoAnswer)

\* The reply of canAddNotes([note])[0] and of addNotes([note])[0].
CanAddAnswer(can_add) == IF can_add THEN "true" ELSE "false"
NoteIdAnswer(note_id) == IF note_id # 0 THEN "id" ELSE "null"
Note(item, options) == [item |-> item, options |-> options]

\* The 'options' entry of a note.
NoOptions == "none"
EmptyOptions == "{}"
AllowDuplicate == "allowDuplicate:true"
OtherOptions == "allowDuplicate:false"

\* ---- os.getenv("ANKI_PORT", "8765") as load_web_config reads it
PortValues == {"8765", "abc"}

\* The anki_port of a settings request: a JSON number or a JSON string.
JsonValue(type, text) == [type |-> type, text |-> text]
PostedPorts == {JsonValue("int", "8765"), JsonValue("str", "8765"),
                JsonValue("str", "abc")}

\* No settings request has just succeeded / the response carries no port.
NotPosted == JsonValue("none", "")

\* str(data['anki_port']), lines 270-271
Str(v) == v.text

\* int(...) of line 21, where it does not raise
IntOf(text) == JsonValue("int", text)

\* ---- the LLM providers, class LLMProvider
Providers == {"openai", "gemini", "custom"}

\* no LLMClient was built
NoClient == "none"

\* LLMClient.__init__, lines 94-110: openai and gemini need an API key
LLMClientRaises(provider, key) == provider \in {"openai", "gemini"} /\ ~key

\* generate_note, lines 141-146: the backend the client dispatches to
Backend(provider) ==
    CASE provider = "openai" -> "_generate_openai"
      [] provider = "gemini" -> "_generate_gemini"
      [] provider = "custom" -> "_generate_custom"
      [] OTHER -> "none"

\* load_web_config, line 21: int(os.getenv("ANKI_PORT", "8765"))
ConfigLoads == env_port # "abc"

\* ---- HTTP responses
Resp(code, status, keys) ==
    [code |-> code, status |-> status, keys |-> keys,
     total |-> 0, successful |-> 0, failed |-> 0, nresults |-> 0,
     instructions |-> EmptyDoc, port |-> NotPosted]

NoResponse == Resp(0, "", {})

ErrorRespOk == Resp(200, "", {"error"})

\* jsonify({"error": str(e)}), 500
ErrorResp == Resp(500, "", {"error"})

\* jsonify({"status": "error", "message": str(e)}), 500
StatusErrorResp == Resp(500, "error", {"status", "message"})

\* The per-request state before a handler runs.
IdleRequest ==
    /\ handler = ""
    /\ req_valid = TRUE
    /\ req_options = NoOptions
    /\ req_body = NoBody
    /\ n_items = 0
    /\ idx = 0
    /\ results = <<>>
    /\ fields = 0
    /\ successful = 0
    /\ failed = 0
    /\ added_count = 0
    /\ response = NoResponse
    /\ raised = "no"
    /\ calls = <<>>
    /\ svc_err = FALSE
    /\ printed = {}
    /\ typed = ""
    /\ auto_add = FALSE

-----------------------------------------------------------------------------
(* Part 1: LLMClient.generate_note, lines 141-166 *)

\* Characters of input words and of LLM-produced patterns.
WordChar == {"a", "b", " "}
PatChar == {"a", "_", " "}

\* All strings over S of length at most n.
StrsUpTo(S, n) == UNION {[1..k -> S] : k \in 0..n}

NoFields == [k \in {} |-> <<>>]

\* pattern.replace(" ", "")
RemoveSpaces(s) == SelectSeq(s, LAMBDA c : c # " ")

\* "_" * k  (the empty string when k <= 0)
Underscores(k) == [i \in 1..k |-> "_"]

RepairSuggestTooLong(word) ==
    IF Len(word) > 2
    THEN <<word[1]>> \o Underscores(Len(word) - 1) \o <<word[Len(word)]>>
    ELSE word

RepairSuggestFirstTwice(word) ==
    IF Len(word) > 2
    THEN <<word[1]>> \o Underscores(Len(word) - 2) \o <<word[1]>>
    ELSE word

\* lines 160-164: keep first and last letter, or the word itself when short
RepairSuggest(word) ==
    IF Len(word) > 2
    THEN <<word[1]>> \o Underscores(Len(word) - 2) \o <<word[Len(word)]>>
    ELSE word

\* lines 148-166: the validation of the provider's result
ValidateTHPTQG(word, model_name, result) ==
    IF model_name = THPTQG /\ "suggest" \in DOMAIN result
    THEN LET r1 == IF "Word" \in DOMAIN result /\ result["Word"] # word
                   THEN [result EXCEPT !["Word"] = word]
                   ELSE result
             pattern == r1["suggest"]
         IN  IF Len(RemoveSpaces(pattern)) # Len(word)
             THEN [r1 EXCEPT !["suggest"] = RepairSuggest(word)]
             ELSE r1
    ELSE result

\* What a provider backend can hand back: a parsed JSON object, or an exception.
LLMWordValues(word) == {word, <<"a">>, <<"b">>}

LLMResults(word) ==
    {[ok |-> FALSE, fields |-> NoFields]} \cup
    {[ok |-> TRUE, fields |-> f] :
        f \in UNION {
            {NoFields},
            {[k \in {"Word"} |-> w] : w \in LLMWordValues(word)},
            {[k \in {"suggest"} |-> p] : p \in StrsUpTo(PatChar, MaxPatLen)},
            {[k \in {"Word", "suggest"} |-> IF k = "Word" THEN w ELSE p] :
                w \in LLMWordValues(word), p \in StrsUpTo(PatChar, MaxPatLen)} }}


-----------------------------------------------------------------------------
(* AnkiConnectClient._invoke, lines 48-63, as a function of its arguments   *)
(* and of the reply of the HTTP request.                                    *)

\* self.version, line 46
Version == 6

\* JSON null
Null == JsonValue("null", "")

\* bool(v) of Python for a JSON value
Truthy(v) ==
    CASE v.type = "null" -> FALSE
      [] v.type = "str" -> v.text # ""
      [] v.type = "int" -> v.text # "0"
      [] v.type = "list" -> v.text # "[]"
      [] v.type = "dict" -> v.text # "{}"
      [] OTHER -> TRUE

\* The params argument: None (the default), an empty dict, a dict with entries.
ParamsValues == {Null, JsonValue("dict", "{}"), JsonValue("dict", "{notes: [n1]}")}

\* The 'error' and the 'result' of a reply.
ErrorValues == {Null, JsonValue("str", ""), JsonValue("str", "deck was not found")}
ResultValues == {Null, JsonValue("int", "0"), JsonValue("int", "1"),
                 JsonValue("list", "[]"), JsonValue("list", "[null]")}

\* What requests.post brought back: an HTTP failure (connection error or a
\* status that raise_for_status rejects) or a JSON object.
Replies ==
    [http : {"ok", "failed"}, error : ErrorValues, result : ResultValues]

\* The actions the client's methods send, lines 65-87.
ClientActions == {"deckNames", "createDeck", "modelFieldNames", "modelNames",
                  "canAddNotes", "addNotes", "findNotes", "notesInfo"}

\* lines 49-54: params is part of the payload when it is truthy
Payload(action, params) ==
    [action |-> action, version |-> Version,
     has_params |-> Truthy(params),
     params |-> IF Truthy(params) THEN params ELSE Null]

Raise(text) == [kind |-> "raise", text |-> text, value |-> Null]
Return(value) == [kind |-> "return", text |-> "", value |-> value]

InvokeOutcomeIgnoringError(reply) ==
    IF reply.http # "ok" THEN Raise("HTTPError")
    ELSE IF Truthy(reply.error) /\ ~Truthy(reply.result) THEN Raise(reply.error.text)
    ELSE Return(reply.result)

\* lines 56-63: raise_for_status, then the error of the reply, else its result
InvokeOutcome(reply) ==
    IF reply.http # "ok" THEN Raise("HTTPError")
    ELSE IF Truthy(reply.error) THEN Raise(reply.error.text)
    ELSE Return(reply.result)

NoInvoke ==
    [pc |-> "none", action |-> "", params |-> Null,
     reply |-> [http |-> "ok", error |-> Null, result |-> Null],
     payload |-> Payload("", Null), outcome |-> Return(Null)]

-----------------------------------------------------------------------------
(* The pagination of search_notes, lines 620-652.                           *)

\* all_note_ids[start:end] of Python, for any integers start and end
SliceIndex(i, len) ==
    IF i < 0 THEN (IF i + len < 0 THEN 0 ELSE i + len)
    ELSE IF i > len THEN len ELSE i

PySlice(list, start, end) ==
    LET s == SliceIndex(start, Len(list))
        e == SliceIndex(end, Len(list))
    IN  IF s >= e THEN <<>> ELSE SubSeq(list, s + 1, e)

PageNoteIdsFromPage(all_note_ids, page, per_page) ==
    PySlice(all_note_ids, page * per_page, page * per_page + per_page)

\* lines 624-626
PageNoteIds(all_note_ids, page, per_page) ==
    LET start_idx == (page - 1) * per_page
        end_idx == start_idx + per_page
    IN  PySlice(all_note_ids, start_idx, end_idx)

\* line 652, for per_page > 0 (a per_page of 0 raises ZeroDivisionError)
Pages(total_notes, per_page) == (total_notes + per_page - 1) \div per_page

NoSearch ==
    [pc |-> "none", all_note_ids |-> <<>>, page |-> 1, per_page |-> 1,
     page_note_ids |-> <<>>, pages |-> 0]

-----------------------------------------------------------------------------
(* The two files the web API rewrites: model_instructions.json and .env     *)

\* The requests of app.py's threaded server that are in flight together.
PostIds == {1, 2}

\* One POST /api/model_instructions: where it stands, its body, the
\* document it loaded and changed (its local `instructions`), its status.
PostReq(at, model_name, instruction) ==
    [pc |-> at, model_name |-> model_name, instruction |-> instruction,
     instructions |-> EmptyDoc, clobbered |-> FALSE, code |-> 0]

\* model_instructions.json holds `doc` when `file` is "ok"; it is "empty"
\* after open(..., 'w') truncated it and "garbage" after overlapping writes.
NoPosting ==
    [file |-> "ok", doc |-> EmptyDoc, reqs |-> [p \in PostIds |-> PostReq("none", "", Absent)]]

\* ---- .env as update_settings reads and rewrites it (app.py 253-302)

\* str.strip(chars): the characters of `chars` are removed from both ends.
RECURSIVE LStrip(_, _)
LStrip(s, chars) ==
    IF s # <<>> /\ Head(s) \in chars THEN LStrip(Tail(s), chars) ELSE s

RECURSIVE RStrip(_, _)
RStrip(s, chars) ==
    IF s # <<>> /\ s[Len(s)] \in chars
    THEN RStrip(SubSeq(s, 1, Len(s) - 1), chars)
    ELSE s

PyStrip(s, chars) == RStrip(LStrip(s, chars), chars)

Whitespace == {" "}
QuoteChars == {"\"", "'"}

\* One line of the file.  A line that is empty, starts with '#' or has no
\* '=' is skipped by line 261; an entry is the text before the first '='
\* and the text after it.  A variable's name is one symbol of the text.
Line(kind, key, raw) == [kind |-> kind, key |-> key, raw |-> raw]

\* The text before '=' and after it in the lines of the file at hand.
KeyTexts == {<<"FOO", " ">>, <<"ANKI_HOST">>}
RawValues ==
    {<<"a">>, <<"\"", "a", "\"">>,
     <<"\"", "'", "a", "'", "\"">>, <<"a", "\"">>,
     <<" ", "\"", "a", "\"", " ">>, <<"\"", " ", "a", "\"">>}

EnvLines ==
    {Line(kind, <<>>, <<>>) : kind \in {"blank", "comment", "noeq"}} \cup
    {Line("entry", key, raw) : key \in KeyTexts, raw \in RawValues}

EnvFiles == UNION {[1..k -> EnvLines] : k \in 0..MaxLines}

\* env_vars[key] = value on a dict that keeps insertion order
DictSet(env_vars, key, value) ==
    IF \E i \in 1..Len(env_vars) : env_vars[i].key = key
    THEN [i \in 1..Len(env_vars) |->
            IF env_vars[i].key = key THEN [key |-> key, value |-> value]
            ELSE env_vars[i]]
    ELSE Append(env_vars, [key |-> key, value |-> value])

\* lines 257-263: the entries of the first n lines
RECURSIVE ReadEnv(_, _)
ReadEnv(lines, n) ==
    IF n = 0 THEN <<>>
    ELSE IF lines[n].kind = "entry"
    THEN DictSet(ReadEnv(lines, n - 1),
                 PyStrip(lines[n].key, Whitespace),
                 PyStrip(PyStrip(lines[n].raw, Whitespace), QuoteChars))
    ELSE ReadEnv(lines, n - 1)

\* A key the body of the request does not have.
Missing == <<"(missing)">>

\* request.json: the values of the keys the handler looks at
SettingsBodies ==
    [anki_host : {Missing, <<"h">>},
     anki_port : {Missing, <<"8765">>},
     llm_provider : {Missing, <<"openai">>, <<"custom">>},
     llm_model : {Missing, <<"m">>},
     api_key : {Missing, <<>>, <<"k">>},
     custom_endpoint : {Missing, <<"e">>}]

NoEnvCall ==
    [pc |-> "none", before |-> <<>>, lines |-> <<>>, code |-> 0,
     data |-> [anki_host |-> Missing, anki_port |-> Missing, llm_provider |-> Missing, llm_model |-> Missing,
               api_key |-> Missing, custom_endpoint |-> Missing]]

\* lines 266-297: the variables the request sets, applied in the code's order
SetIf(cond, env_vars, name, value) ==
    IF cond THEN DictSet(env_vars, <<name>>, value) ELSE env_vars

UpdateEnv(env_vars, data, env_provider) ==
    LET provider == IF data.llm_provider # Missing THEN data.llm_provider
                    ELSE env_provider
        keyed == data.api_key # Missing /\ data.api_key # <<>>
        custom == data.custom_endpoint # Missing /\ data.llm_provider = <<"custom">>
        e1 == SetIf(data.anki_host # Missing, env_vars, "ANKI_HOST", data.anki_host)
        e0 == SetIf(data.anki_port # Missing, e1, "ANKI_PORT", data.anki_port)
        e2 == SetIf(data.llm_provider # Missing, e0, "LLM_PROVIDER", data.llm_provider)
        e3 == SetIf(data.llm_model # Missing, e2, "LLM_MODEL", data.llm_model)
        e4 == SetIf(keyed /\ provider = <<"gemini">>, e3, "GEMINI_API_KEY", data.api_key)
        e5 == SetIf(keyed /\ provider = <<"openai">>, e4, "OPENAI_API_KEY", data.api_key)
        e6 == SetIf(keyed /\ provider = <<"custom">>, e5, "CUSTOM_API_KEY", data.api_key)
        e7 == SetIf(custom, e6, "CUSTOM_ENDPOINT", data.custom_endpoint)
    IN  SetIf(custom, e7, "CUSTOM_MODEL",
              IF data.llm_model # Missing THEN data.llm_model ELSE <<"llama2">>)

\* lines 300-302: f.write(f'{key}="{value}"\n') for every variable
WriteEnv(env_vars) ==
    [i \in 1..Len(env_vars) |->
        Line("entry", env_vars[i].key, <<"\"">> \o env_vars[i].value \o <<"\"">>)]
InitSuggest ==
    /\ gn_pc = "call"
    /\ gn_word \in StrsUpTo(WordChar, MaxWordLen)
    /\ gn_model_name \in ModelNames
    /\ gn_llm \in LLMResults(gn_word)
    /\ gn_result = NoFields
    /\ invoke_call = NoInvoke
    /\ search_call = NoSearch
    /\ posting = NoPosting
    /\ env_call = NoEnvCall
    /\ front = "none"
    /\ pc = "none"
    /\ IdleRequest
    /\ instrDisk = EmptyDoc
    /\ instrMem = EmptyDoc
    /\ env_port = "8765"
    /\ llm_available = FALSE
    /\ llm_provider = "gemini"
    /\ api_key = FALSE
    /\ llm_client = NoClient
    /\ last_post = NotPosted

\* generate_note when the backend returned a dict
GenerateNoteReturn ==
    /\ gn_pc = "call"
    /\ gn_llm.ok
    /\ gn_result' = ValidateTHPTQG(gn_word, gn_model_name, gn_llm.fields)
    /\ gn_pc' = "returned"
    /\ UNCHANGED <<gn_word, gn_model_name, gn_llm>>
    /\ UNCHANGED <<fixedVars, pc, reqVars, persistVars, llm_client, last_post,
                   invoke_call, search_call, fileVars>>

\* generate_note when the backend raised: the exception propagates
GenerateNoteRaise ==
    /\ gn_pc = "call"
    /\ ~gn_llm.ok
    /\ gn_pc' = "raised"
    /\ UNCHANGED <<gn_word, gn_model_name, gn_llm, gn_result>>
    /\ UNCHANGED <<fixedVars, pc, reqVars, persistVars, llm_client, last_post,
                   invoke_call, search_call, fileVars>>

NextSuggest == GenerateNoteReturn \/ GenerateNoteRaise

SpecSuggest == InitSuggest /\ [][NextSuggest]_vars


-----------------------------------------------------------------------------
(* One call of AnkiConnectClient._invoke *)

\* No front end runs while a single call is examined.
NoFrontEnd ==
    /\ gn_pc = "none"
    /\ gn_word = <<>>
    /\ gn_model_name = ""
    /\ gn_llm = [ok |-> FALSE, fields |-> NoFields]
    /\ gn_result = NoFields
    /\ front = "none"
    /\ pc = "none"
    /\ IdleRequest
    /\ instrDisk = EmptyDoc
    /\ instrMem = EmptyDoc
    /\ env_port = "8765"
    /\ llm_available = FALSE
    /\ llm_provider = "gemini"
    /\ api_key = FALSE
    /\ llm_client = NoClient
    /\ last_post = NotPosted

InitInvoke ==
    /\ NoFrontEnd
    /\ search_call = NoSearch
    /\ posting = NoPosting
    /\ env_call = NoEnvCall
    /\ \E action \in ClientActions, params \in ParamsValues, reply \in Replies :
        invoke_call = [NoInvoke EXCEPT !.pc = "call", !.action = action,
                                       !.params = params, !.reply = reply]

\* lines 48-63
Invoke ==
    /\ invoke_call.pc = "call"
    /\ invoke_call' =
          [invoke_call EXCEPT
              !.pc = "done",
              !.payload = Payload(invoke_call.action, invoke_call.params),
              !.outcome = InvokeOutcome(invoke_call.reply)]
    /\ UNCHANGED <<gnVars, search_call, fileVars, fixedVars, pc, reqVars, persistVars,
                   llm_client, last_post>>

SpecInvoke == InitInvoke /\ [][Invoke]_vars

-----------------------------------------------------------------------------
(* The pagination of one search_notes request *)

\* The id lists findNotes may return: every id at most once.
IdLists ==
    {l \in UNION {[1..k -> 1..MaxIds] : k \in 0..MaxIds} :
        \A i, j \in 1..Len(l) : l[i] = l[j] => i = j}

InitSearch ==
    /\ NoFrontEnd
    /\ invoke_call = NoInvoke
    /\ posting = NoPosting
    /\ env_call = NoEnvCall
    /\ \E ids \in IdLists, page \in (-1)..MaxPage, per_page \in 0..MaxPerPage :
        search_call = [NoSearch EXCEPT !.pc = "call", !.all_note_ids = ids,
                                       !.page = page, !.per_page = per_page]

\* lines 620-654 with a per_page other than 0
SearchPaginate ==
    /\ search_call.pc = "call"
    /\ search_call.per_page # 0
    /\ search_call' =
          [search_call EXCEPT
              !.pc = "done",
              !.page_note_ids = PageNoteIds(search_call.all_note_ids,
                                            search_call.page, search_call.per_page),
              !.pages = Pages(Len(search_call.all_note_ids), search_call.per_page)]
    /\ UNCHANGED <<gnVars, invoke_call, fileVars, fixedVars, pc, reqVars, persistVars,
                   llm_client, last_post>>

\* line 652 with per_page = 0: ZeroDivisionError, answered by line 657
SearchDivisionRaises ==
    /\ search_call.pc = "call"
    /\ search_call.per_page = 0
    /\ search_call' =
          [search_call EXCEPT
              !.pc = "raised",
              !.page_note_ids = PageNoteIds(search_call.all_note_ids,
                                            search_call.page, search_call.per_page)]
    /\ UNCHANGED <<gnVars, invoke_call, fileVars, fixedVars, pc, reqVars, persistVars,
                   llm_client, last_post>>

NextSearch == SearchPaginate \/ SearchDivisionRaises

SpecSearch == InitSearch /\ [][NextSearch]_vars
-----------------------------------------------------------------------------
(* Part 2a: the web API, app.py.  One request at a time: a handler runs     *)
(* from pc = "idle" to pc = "responded"; next_request takes the next one.   *)

WebIdle == front = "web" /\ pc = "idle"

\* The handler returns `resp`; `exc` tells whether its outermost except ran,
\* `client` which LLMClient it built, `post` what a settings request stored.
RespondPosted(body, options, post, client, valid, h, cs, resp, exc, serr) ==
    /\ pc' = "responded"
    /\ req_body' = body
    /\ req_options' = options
    /\ handler' = h
    /\ req_valid' = valid
    /\ calls' = cs
    /\ response' = resp
    /\ raised' = exc
    /\ svc_err' = serr
    /\ llm_client' = client
    /\ last_post' = post
    /\ UNCHANGED <<fixedVars, n_items, idx, results, fields, conVars, instrMem,
                   llm_available>>
    /\ UNCHANGED pureVars

RespondNote(options, post, client, valid, h, cs, resp, exc, serr) ==
    RespondPosted(NoBody, options, post, client, valid, h, cs, resp, exc, serr)

RespondFull(post, client, valid, h, cs, resp, exc, serr) ==
    RespondNote(NoOptions, post, client, valid, h, cs, resp, exc, serr)

RespondTo(valid, h, cs, resp, exc, serr) ==
    RespondFull(NotPosted, NoClient, valid, h, cs, resp, exc, serr)

Respond(h, cs, resp, exc, serr) == RespondTo(TRUE, h, cs, resp, exc, serr)

\* The handler built an LLMClient for `client` before it answered.
RespondWithClient(client, h, cs, resp, exc, serr) ==
    RespondFull(NotPosted, client, TRUE, h, cs, resp, exc, serr)

\* lines 132-140: the provider chosen for the configured llm_provider
WebProvider(provider_str) ==
    IF provider_str \in Providers THEN provider_str ELSE "gemini"

\* The request body is malformed or lacks what the handler requires.
RespondInvalid(h, cs, resp, exc) == RespondTo(FALSE, h, cs, resp, exc, FALSE)

\* load_web_config, one client method, one response: the shape of
\* test_connection, get_decks, get_models and get_model_fields.
OneCall(h, action, okResp, errResp) ==
    \E reply \in SvcReplies :
        IF ~ConfigLoads
        THEN Respond(h, <<>>, errResp, "body", FALSE)
        ELSE IF InvokeRaises(reply)
        THEN Respond(h, <<Call(action, <<>>)>>, errResp, "body", TRUE)
        ELSE Respond(h, <<Call(action, <<>>)>>, okResp, "no", FALSE)

\* lines 29-37
test_connection ==
    /\ WebIdle
    /\ OneCall("test_connection", "deckNames",
               Resp(200, "connected", {"status", "message"}), StatusErrorResp)
    /\ UNCHANGED <<instrDisk, env_port>>

\* lines 39-47
get_decks ==
    /\ WebIdle
    /\ OneCall("get_decks", "deckNames", Resp(200, "", {"decks"}), ErrorResp)
    /\ UNCHANGED <<instrDisk, env_port>>

\* lines 49-57
get_models ==
    /\ WebIdle
    /\ OneCall("get_models", "modelNames", Resp(200, "", {"models"}), ErrorResp)
    /\ UNCHANGED <<instrDisk, env_port>>

\* lines 59-67
get_model_fields ==
    /\ WebIdle
    /\ OneCall("get_model_fields", "modelFieldNames",
               Resp(200, "", {"fields"}), ErrorResp)
    /\ UNCHANGED <<instrDisk, env_port>>

\* lines 74-81: string instructions that parse as JSON are replaced by their
\* parsed value in the dict that is returned
ParsedForResponse(doc) ==
    [m \in ModelNames |->
        IF IsStr(doc[m]) /\ JsonLoadsOk(doc[m]) THEN JsonLoads(doc[m]) ELSE doc[m]]

InstructionsResp(doc) ==
    [Resp(200, "", {"instructions"}) EXCEPT !.instructions = ParsedForResponse(doc)]

get_model_instructions_saving ==
    /\ WebIdle
    /\ \E io_ok \in BOOLEAN :
        IF io_ok
        THEN /\ Respond("get_model_instructions", <<>>,
                        InstructionsResp(instrDisk), "no", FALSE)
             /\ instrDisk' = ParsedForResponse(instrDisk)
        ELSE /\ Respond("get_model_instructions", <<>>, ErrorResp, "body", FALSE)
             /\ UNCHANGED instrDisk
    /\ UNCHANGED env_port

\* lines 69-84: GET /api/model_instructions
get_model_instructions ==
    /\ WebIdle
    /\ \E io_ok \in BOOLEAN :
        IF io_ok
        THEN Respond("get_model_instructions", <<>>,
                     InstructionsResp(instrDisk), "no", FALSE)
        ELSE Respond("get_model_instructions", <<>>, ErrorResp, "body", FALSE)
    /\ UNCHANGED <<instrDisk, env_port>>

\* lines 94-109: the value stored for the posted instruction
StoredInstruction(instruction) ==
    IF IsDict(instruction) THEN instruction
    ELSE IF IsStr(instruction)
    THEN (IF JsonLoadsOk(instruction) THEN JsonLoads(instruction) ELSE instruction)
    ELSE instruction

UpdatedInstructionsAlone(instructions, model_name, stored) ==
    [EmptyDoc EXCEPT ![model_name] = stored]

\* lines 96-109: instructions[model_name] = ... on the loaded document
UpdatedInstructions(instructions, model_name, stored) ==
    [instructions EXCEPT ![model_name] = stored]

\* lines 86-115: POST /api/model_instructions
update_model_instructions ==
    /\ WebIdle
    /\ \E model_name \in ModelNames, instruction \in InstrValues, ok \in BOOLEAN :
        LET RespondUpdate(resp, exc) ==
                RespondPosted(Body(model_name, instruction), NoOptions, NotPosted,
                              NoClient, TRUE, "update_model_instructions", <<>>,
                              resp, exc, FALSE)
        IN  IF ok
            THEN /\ instrDisk' =
                      UpdatedInstructions(instrDisk, model_name,
                                          StoredInstruction(instruction))
                 /\ RespondUpdate(Resp(200, "success", {"status", "message"}), "no")
            ELSE /\ UNCHANGED instrDisk
                 /\ RespondUpdate(ErrorResp, "body")
    /\ UNCHANGED env_port

\* lines 117-187: POST /api/generate_note.  `fail` is the first step that raises.
generate_note ==
    /\ WebIdle
    /\ \E fail \in {"none", "setup", "fields", "generate", "can_add"},
          can_add \in BOOLEAN :
        LET h == "generate_note"
            c1 == <<Call("modelFieldNames", <<>>)>>
            c2 == c1 \o <<Answered("canAddNotes", <<Note(1, NoOptions)>>,
                                   IF fail = "can_add" THEN "raised"
                                   ELSE CanAddAnswer(can_add))>>
            provider == WebProvider(llm_provider)
        IN  IF ~ConfigLoads \/ fail = "setup" \/ LLMClientRaises(provider, api_key)
            THEN Respond(h, <<>>, ErrorResp, "body", FALSE)
            ELSE IF fail = "fields"
            THEN RespondWithClient(provider, h, c1, ErrorResp, "body", TRUE)
            ELSE IF fail = "generate"
            THEN RespondWithClient(provider, h, c1, ErrorResp, "body", FALSE)
            ELSE IF fail = "can_add"
            THEN RespondWithClient(provider, h, c2, ErrorResp, "body", TRUE)
            ELSE RespondWithClient(provider, h, c2,
                         Resp(200, "success", {"status", "fields", "can_add", "note"}),
                         "no", FALSE)
    /\ UNCHANGED <<instrDisk, env_port>>

\* line 199: the note is checked with canAddNotes only when it has no options
AddNoteChecks(options) == options \in {NoOptions, EmptyOptions}

\* lines 199-207: the options the note carries when it is added
AddNoteOptionsAlwaysAllowing(options, can_add) ==
    IF ~AddNoteChecks(options) THEN options ELSE AllowDuplicate

AddNoteOptions(options, can_add) ==
    IF ~AddNoteChecks(options) THEN options
    ELSE IF ~can_add THEN AllowDuplicate
    ELSE options

AddNoteInsertRetrying(opts, note_id) ==
    IF note_id = 0
    THEN <<Answered("addNotes", <<Note(1, opts)>>, "null"),
           Answered("addNotes", <<Note(1, AllowDuplicate)>>, "null")>>
    ELSE <<Answered("addNotes", <<Note(1, opts)>>, "id")>>

\* line 210: the addNotes calls of one add_note request (note_id 0 is null)
AddNoteInsert(opts, note_id) ==
    <<Answered("addNotes", <<Note(1, opts)>>, NoteIdAnswer(note_id))>>

\* lines 212-222: the response for the id addNotes returned
AddedResp(note_id) ==
    IF note_id # 0
    THEN Resp(200, "success", {"status", "message", "note_id"})
    ELSE Resp(400, "error", {"status", "message"})

\* lines 189-225: POST /api/add_note
add_note ==
    /\ WebIdle
    /\ \E options \in {NoOptions, EmptyOptions, AllowDuplicate, OtherOptions},
          fail \in {"none", "setup", "can_add", "add"},
          can_add \in BOOLEAN, note_id \in {0, 1} :
        LET h == "add_note"
            opts == AddNoteOptions(options, can_add)
            check(a) == <<Answered("canAddNotes", <<Note(1, options)>>, a)>>
            c1 == IF AddNoteChecks(options) THEN check(CanAddAnswer(can_add)) ELSE <<>>
            RespondAdd(cs, resp, exc, serr) ==
                RespondNote(options, NotPosted, NoClient, TRUE, h, cs, resp, exc, serr)
        IN  IF ~ConfigLoads \/ fail = "setup"
            THEN RespondAdd(<<>>, ErrorResp, "body", FALSE)
            ELSE IF fail = "can_add" /\ AddNoteChecks(options)
            THEN RespondAdd(check("raised"), ErrorResp, "body", TRUE)
            ELSE IF fail = "add"
            THEN RespondAdd(c1 \o <<Answered("addNotes", <<Note(1, opts)>>, "raised")>>,
                            ErrorResp, "body", TRUE)
            ELSE RespondAdd(c1 \o AddNoteInsert(opts, note_id),
                            AddedResp(note_id), "no", FALSE)
    /\ UNCHANGED <<instrDisk, env_port>>

\* lines 714-745: POST /api/add_duplicate_note
add_duplicate_note ==
    /\ WebIdle
    /\ \E has_note \in BOOLEAN, fail \in {"none", "setup", "add"}, note_id \in {0, 1} :
        LET h == "add_duplicate_note"
            c1 == <<Answered("addNotes", <<Note(1, AllowDuplicate)>>,
                             IF fail = "add" THEN "raised" ELSE NoteIdAnswer(note_id))>>
        IN  IF ~ConfigLoads \/ fail = "setup"
            THEN Respond(h, <<>>, ErrorResp, "body", FALSE)
            ELSE IF ~has_note
            THEN RespondInvalid(h, <<>>, Resp(400, "", {"error"}), "no")
            ELSE IF fail = "add" THEN Respond(h, c1, ErrorResp, "body", TRUE)
            ELSE Respond(h, c1, AddedResp(note_id), "no", FALSE)
    /\ UNCHANGED <<instrDisk, env_port>>

\* lines 227-245: GET /api/settings
get_settings ==
    /\ WebIdle
    /\ IF ConfigLoads
       THEN RespondFull(last_post, NoClient, TRUE, "get_settings", <<>>,
                        [Resp(200, "", {"anki_host", "anki_port", "llm_provider",
                                        "llm_model"})
                            EXCEPT !.port = IntOf(env_port)],
                        "no", FALSE)
       ELSE RespondFull(last_post, NoClient, TRUE, "get_settings", <<>>, ErrorResp,
                        "body", FALSE)
    /\ UNCHANGED <<instrDisk, env_port>>

\* lines 247-307: POST /api/settings.  os.environ is updated (lines 266-297)
\* before the file is written (lines 300-302).
update_settings ==
    /\ WebIdle
    /\ \E port \in PostedPorts \cup {NotPosted}, fail \in {"none", "read", "write"} :
        LET h == "update_settings"
            new_port == IF port = NotPosted THEN env_port ELSE Str(port)
        IN  IF fail = "read"
            THEN /\ UNCHANGED env_port
                 /\ Respond(h, <<>>, ErrorResp, "body", FALSE)
            ELSE IF fail = "write"
            THEN /\ env_port' = new_port
                 /\ Respond(h, <<>>, ErrorResp, "body", FALSE)
            ELSE /\ env_port' = new_port
                 /\ RespondFull(port, NoClient, TRUE, h, <<>>,
                                Resp(200, "success", {"status", "message"}),
                                "no", FALSE)
    /\ UNCHANGED instrDisk

\* lines 309-321: POST /api/test_anki_connection (does not load the config)
test_anki_connection ==
    /\ WebIdle
    /\ \E body_ok \in BOOLEAN, reply \in SvcReplies :
        LET h == "test_anki_connection"
            c1 == <<Call("deckNames", <<>>)>>
        IN  IF ~body_ok THEN Respond(h, <<>>, StatusErrorResp, "body", FALSE)
            ELSE IF InvokeRaises(reply) THEN Respond(h, c1, StatusErrorResp, "body", TRUE)
            ELSE Respond(h, c1, Resp(200, "connected", {"status", "message"}),
                         "no", FALSE)
    /\ UNCHANGED <<instrDisk, env_port>>

\* lines 596-657: POST /api/search_notes.  notesInfo is invoked only for a
\* non-empty page; line 652 divides by per_page.
search_notes ==
    /\ WebIdle
    /\ \E fail \in {"none", "setup", "find", "info", "pages"}, page_empty \in BOOLEAN :
        LET h == "search_notes"
            c1 == <<Call("findNotes", <<>>)>>
            c2 == IF page_empty THEN c1 ELSE c1 \o <<Call("notesInfo", <<>>)>>
        IN  IF ~ConfigLoads \/ fail = "setup"
            THEN Respond(h, <<>>, ErrorResp, "body", FALSE)
            ELSE IF fail = "find" THEN Respond(h, c1, ErrorResp, "body", TRUE)
            ELSE IF fail = "info" /\ ~page_empty
            THEN Respond(h, c2, ErrorResp, "body", TRUE)
            ELSE IF fail = "pages" THEN Respond(h, c2, ErrorResp, "body", FALSE)
            ELSE Respond(h, c2, Resp(200, "success", {"status", "notes", "pagination"}),
                         "no", FALSE)
    /\ UNCHANGED <<instrDisk, env_port>>

\* A call of anki_client.<method>(...): an AttributeError when the class
\* defines no such method, else the _invoke of the action.
MethodCall(h, method, action, reply, okResp) ==
    IF method \notin ClientMethods
    THEN Respond(h, <<>>, ErrorResp, "body", FALSE)
    ELSE IF InvokeRaises(reply)
    THEN Respond(h, <<Call(action, <<>>)>>, ErrorResp, "body", TRUE)
    ELSE Respond(h, <<Call(action, <<>>)>>, okResp, "no", FALSE)

\* lines 659-681: POST /api/delete_notes
delete_notes ==
    /\ WebIdle
    /\ \E body_ok \in BOOLEAN, ids_empty \in BOOLEAN, reply \in SvcReplies :
        LET h == "delete_notes"
        IN  IF ~ConfigLoads THEN Respond(h, <<>>, ErrorResp, "body", FALSE)
            ELSE IF ~body_ok THEN RespondInvalid(h, <<>>, ErrorResp, "body")
            ELSE IF ids_empty
            THEN RespondInvalid(h, <<>>, Resp(400, "", {"error"}), "no")
            ELSE MethodCall(h, "delete_notes", "deleteNotes", reply,
                            Resp(200, "success", {"status", "message"}))
    /\ UNCHANGED <<instrDisk, env_port>>

\* lines 683-712: POST /api/update_note
update_note ==
    /\ WebIdle
    /\ \E body_ok \in BOOLEAN, args_missing \in BOOLEAN, reply \in SvcReplies :
        LET h == "update_note"
        IN  IF ~ConfigLoads THEN Respond(h, <<>>, ErrorResp, "body", FALSE)
            ELSE IF ~body_ok THEN RespondInvalid(h, <<>>, ErrorResp, "body")
            ELSE IF args_missing
            THEN RespondInvalid(h, <<>>, Resp(400, "", {"error"}), "no")
            ELSE MethodCall(h, "update_note", "updateNoteFields", reply,
                            Resp(200, "success", {"status", "message"}))
    /\ UNCHANGED <<instrDisk, env_port>>

\* Flask hands the next request to its handler: the per-request state is new.
next_request ==
    /\ front = "web"
    /\ pc = "responded"
    /\ pc' = "idle"
    /\ handler' = ""
    /\ req_valid' = TRUE
    /\ req_options' = NoOptions
    /\ req_body' = NoBody
    /\ llm_client' = NoClient
    /\ n_items' = 0
    /\ idx' = 0
    /\ results' = <<>>
    /\ fields' = 0
    /\ response' = NoResponse
    /\ raised' = "no"
    /\ calls' = <<>>
    /\ svc_err' = FALSE
    /\ UNCHANGED <<fixedVars, last_post, conVars, persistVars>>
    /\ UNCHANGED pureVars

-----------------------------------------------------------------------------
(* Part 2b: the batch handlers of app.py.  The start action runs the code   *)
(* before the loop, one item action runs one iteration of the loop, the     *)
(* finish action builds the response.                                       *)

\* One entry of a handler's results list.  note_id 0 is null; fields 0 is the
\* absence of generated content, fields i the content generated for item i.
Entry(item, success, note_id, flds, is_duplicate, has_note, error, status) ==
    [item |-> item, success |-> success, note_id |-> note_id, fields |-> flds,
     is_duplicate |-> is_duplicate, has_note |-> has_note, error |-> error,
     status |-> status]

\* sum(1 for r in results if r["success"])
RECURSIVE CountSuccess(_)
CountSuccess(rs) ==
    IF rs = <<>> THEN 0
    ELSE (IF Head(rs).success THEN 1 ELSE 0) + CountSuccess(Tail(rs))

\* lines 438-446 and 583-591: results with their summary
SummaryResp(rs) ==
    [Resp(200, "success", {"status", "results", "summary"}) EXCEPT
        !.total = Len(rs),
        !.successful = CountSuccess(rs),
        !.failed = Len(rs) - CountSuccess(rs),
        !.nresults = Len(rs)]

\* The loop is entered: the code before it ran without an exception.
EnterLoop(h, client, k, cs) ==
    /\ pc' = "loop"
    /\ handler' = h
    /\ llm_client' = client
    /\ last_post' = NotPosted
    /\ req_options' = NoOptions
    /\ req_body' = NoBody
    /\ n_items' = k
    /\ idx' = 0
    /\ results' = <<>>
    /\ fields' = 0
    /\ calls' = cs
    /\ UNCHANGED <<fixedVars, req_valid, conVars, response, raised,
                   svc_err, persistVars>>
    /\ UNCHANGED pureVars

\* lines 325-365 and 454-494: the code of batch_generate and
\* batch_generate_preview that precedes the loop
GenerateSetup(h) ==
    \E k \in 0..MaxWords, fail \in {"none", "setup", "fields"} :
        LET provider == WebProvider(llm_provider)
        IN  IF ~ConfigLoads \/ fail = "setup" \/ LLMClientRaises(provider, api_key)
            THEN /\ Respond(h, <<>>, ErrorResp, "body", FALSE)
                 /\ UNCHANGED <<instrDisk, env_port>>
            ELSE IF fail = "fields"
            THEN /\ RespondWithClient(provider, h, <<Call("modelFieldNames", <<>>)>>,
                                      ErrorResp, "body", TRUE)
                 /\ UNCHANGED <<instrDisk, env_port>>
            ELSE EnterLoop(h, provider, k, <<Call("modelFieldNames", <<>>)>>)

\* One iteration leaves the loop position, the results and the call log.
LoopStep(rs, flds, cs, serr) ==
    /\ idx' = idx + 1
    /\ results' = rs
    /\ fields' = flds
    /\ calls' = cs
    /\ svc_err' = (svc_err \/ serr)
    /\ UNCHANGED <<fixedVars, llm_client, last_post, req_options, req_body, req_valid, pc, handler, n_items, conVars,
                   response, raised, persistVars>>
    /\ UNCHANGED pureVars

\* The loop is left by an exception that only the outermost except catches.
LoopAbort(cs, serr) ==
    /\ idx' = idx + 1
    /\ pc' = "responded"
    /\ response' = ErrorResp
    /\ raised' = "loop"
    /\ calls' = cs
    /\ svc_err' = (svc_err \/ serr)
    /\ UNCHANGED <<fixedVars, llm_client, last_post, req_options, req_body, req_valid, handler, n_items, results, fields, conVars, persistVars>>
    /\ UNCHANGED pureVars

LoopFinish(resp) ==
    /\ pc' = "responded"
    /\ response' = resp
    /\ UNCHANGED <<fixedVars, llm_client, last_post, req_options, req_body, req_valid, handler, n_items, idx, results, fields, conVars, raised, calls, svc_err,
                   persistVars>>
    /\ UNCHANGED pureVars

batch_generate_start ==
    /\ WebIdle
    /\ GenerateSetup("batch_generate")

ItemFailedDropped(rs, entry) == rs

\* lines 427-434: the except branch appends the item's failure entry
ItemFailed(rs, entry) == Append(rs, entry)

\* lines 413-425: fields_data is the function-local 'fields' when it is bound
\* (it stays bound to the last generated content), else the Error entry
FieldsData(flds) == flds

CallsForDuplicateAdding(cs, check, add) == cs \o <<check, add>>

\* lines 401-411: a duplicate is reported, nothing more is sent for it
CallsForDuplicate(cs, check, add) == Append(cs, check)

\* lines 367-434: one iteration of batch_generate's loop
batch_generate_item ==
    /\ front = "web" /\ pc = "loop" /\ handler = "batch_generate"
    /\ idx < n_items
    /\ \E fail \in {"none", "generate", "note", "can_add", "add"},
          can_add \in BOOLEAN, note_id \in {0, 1} :
        LET i == idx + 1
            check(a) == Answered("canAddNotes", <<Note(i, NoOptions)>>, a)
            add(a) == Answered("addNotes", <<Note(i, NoOptions)>>, a)
            failure(flds) ==
                Entry(i, FALSE, 0, FieldsData(flds), FALSE, FALSE, TRUE, "")
        IN  IF fail = "generate"
            THEN LoopStep(ItemFailed(results, failure(fields)), fields, calls, FALSE)
            ELSE IF fail = "note"
            THEN LoopStep(ItemFailed(results, failure(i)), i, calls, FALSE)
            ELSE IF fail = "can_add"
            THEN LoopStep(ItemFailed(results, failure(i)), i,
                          Append(calls, check("raised")), TRUE)
            ELSE IF ~can_add
            THEN LoopStep(Append(results, Entry(i, FALSE, 0, i, TRUE, TRUE, TRUE, "")),
                          i, CallsForDuplicate(calls, check("false"), add("null")), FALSE)
            ELSE IF fail = "add"
            THEN LoopStep(ItemFailed(results, failure(i)), i,
                          calls \o <<check("true"), add("raised")>>, TRUE)
            ELSE LoopStep(Append(results,
                                 Entry(i, note_id # 0, note_id, i, FALSE, TRUE,
                                       note_id = 0, "")),
                          i, calls \o <<check("true"), add(NoteIdAnswer(note_id))>>,
                          FALSE)

\* lines 436-446
batch_generate_finish ==
    /\ front = "web" /\ pc = "loop" /\ handler = "batch_generate"
    /\ idx = n_items
    /\ LoopFinish(SummaryResp(results))

batch_generate_preview_start ==
    /\ WebIdle
    /\ GenerateSetup("batch_generate_preview")

PreviewCallsAdding(cs, check) ==
    cs \o <<check, Answered("addNotes", check.notes, "id")>>

\* line 516: the preview sends canAddNotes for the note, nothing else
PreviewCalls(cs, check) == Append(cs, check)

\* lines 496-537: one iteration of batch_generate_preview's loop
batch_generate_preview_item ==
    /\ front = "web" /\ pc = "loop" /\ handler = "batch_generate_preview"
    /\ idx < n_items
    /\ \E fail \in {"none", "generate", "note", "can_add"}, can_add \in BOOLEAN :
        LET i == idx + 1
            check(a) == Answered("canAddNotes", <<Note(i, NoOptions)>>, a)
            failure == Entry(i, FALSE, 0, 0, FALSE, FALSE, TRUE, "error")
        IN  IF fail = "generate"
            THEN LoopStep(Append(results, failure), fields, calls, FALSE)
            ELSE IF fail = "note"
            THEN LoopStep(Append(results, failure), i, calls, FALSE)
            ELSE IF fail = "can_add"
            THEN LoopStep(Append(results, failure), i,
                          Append(calls, check("raised")), TRUE)
            ELSE LoopStep(Append(results,
                                 Entry(i, can_add, 0, i, ~can_add, TRUE, FALSE,
                                       IF can_add THEN "ready" ELSE "duplicate")),
                          i, PreviewCalls(calls, check(CanAddAnswer(can_add))), FALSE)

\* lines 539-542
batch_generate_preview_finish ==
    /\ front = "web" /\ pc = "loop" /\ handler = "batch_generate_preview"
    /\ idx = n_items
    /\ LoopFinish([Resp(200, "success", {"status", "results"}) EXCEPT
                      !.nresults = Len(results)])

\* lines 550-557
batch_add_selected_start ==
    /\ WebIdle
    /\ \E k \in 0..MaxWords, body_ok \in BOOLEAN :
        IF ~ConfigLoads \/ ~body_ok
        THEN /\ Respond("batch_add_selected", <<>>, ErrorResp, "body", FALSE)
             /\ UNCHANGED <<instrDisk, env_port>>
        ELSE EnterLoop("batch_add_selected", NoClient, k, <<>>)

\* lines 558-579: one iteration of batch_add_selected's loop.  item['note']
\* (line 559) is read outside the inner try; item['word'] is read inside it
\* (line 568) and again inside its except branch (line 575).
batch_add_selected_item ==
    /\ front = "web" /\ pc = "loop" /\ handler = "batch_add_selected"
    /\ idx < n_items
    /\ \E has_note \in BOOLEAN, has_word \in BOOLEAN, force_duplicate \in BOOLEAN,
          reply \in SvcReplies, note_id \in {0, 1} :
        LET i == idx + 1
            opts == IF force_duplicate THEN AllowDuplicate ELSE NoOptions
            cs == Append(calls, Answered("addNotes", <<Note(i, opts)>>,
                                         IF InvokeRaises(reply) THEN "raised"
                                         ELSE NoteIdAnswer(note_id)))
        IN  IF ~has_note
            THEN LoopAbort(calls, FALSE)
            ELSE IF ~has_word
            THEN LoopAbort(cs, InvokeRaises(reply))
            ELSE IF InvokeRaises(reply)
            THEN LoopStep(Append(results,
                                 Entry(i, FALSE, 0, 0, FALSE, TRUE, TRUE, "")),
                          fields, cs, TRUE)
            ELSE LoopStep(Append(results,
                                 Entry(i, note_id # 0, note_id, 0, FALSE, TRUE,
                                       note_id = 0, "")),
                          fields, cs, FALSE)

\* lines 581-591
batch_add_selected_finish ==
    /\ front = "web" /\ pc = "loop" /\ handler = "batch_add_selected"
    /\ idx = n_items
    /\ LoopFinish(SummaryResp(results))

-----------------------------------------------------------------------------
(* Part 2c: the console program, anki_interactive.py main().  The startup   *)
(* runs from pc = "start" to pc = "menu"; one menu option runs from "menu"  *)
(* to "option_done" (options 8 and 9 through their loops), and menu_loop    *)
(* starts the next iteration of the while loop of line 386.                 *)

ConsoleAt(p) == front = "console" /\ pc = p

\* A step of main() that changes only the position and what was printed.
Startup(newpc, cs, msgs, serr) ==
    /\ pc' = newpc
    /\ calls' = cs
    /\ printed' = msgs
    /\ typed' = ""
    /\ svc_err' = serr
    /\ UNCHANGED <<fixedVars, last_post, req_options, req_body, req_valid, handler, n_items, idx, results,
                   fields, successful, failed, added_count, auto_add, response,
                   raised, instrDisk, env_port>>
    /\ UNCHANGED pureVars

\* line 351: load_config() is called outside every try; json.load raises on
\* a file that is not valid JSON
main_load_config ==
    /\ ConsoleAt("start")
    /\ \E config_file \in {"missing", "valid", "invalid"} :
        IF config_file = "invalid"
        THEN Startup("crashed", <<>>, {}, FALSE)
        ELSE Startup("connect", <<>>, {}, FALSE)
    /\ UNCHANGED <<instrMem, llm_available, llm_client>>

\* lines 354-361: the connection test; sys.exit(1) when it fails
main_connect ==
    /\ ConsoleAt("connect")
    /\ \E reply \in SvcReplies :
        IF InvokeRaises(reply)
        THEN Startup("exit1", <<Call("deckNames", <<>>)>>, {"error"}, TRUE)
        ELSE Startup("load_instructions", <<Call("deckNames", <<>>)>>, {}, FALSE)
    /\ UNCHANGED <<instrMem, llm_available, llm_client>>

\* line 363: load_model_instructions() is called outside every try
main_load_model_instructions ==
    /\ ConsoleAt("load_instructions")
    /\ \E io_ok \in BOOLEAN :
        IF io_ok
        THEN /\ instrMem' = instrDisk
             /\ Startup("llm_check", calls, {}, FALSE)
        ELSE /\ UNCHANGED instrMem
             /\ Startup("crashed", calls, {}, FALSE)
    /\ UNCHANGED <<llm_available, llm_client>>

\* lines 369-381: the console builds an LLMClient when the configured
\* provider is openai or gemini and that provider's API key is set; no
\* branch handles the provider custom
ConsoleEnables(provider_str, key) == provider_str \in {"openai", "gemini"} /\ key

\* lines 365-384
main_llm_check ==
    /\ ConsoleAt("llm_check")
    /\ LET available == ConsoleEnables(llm_provider, api_key)
       IN  /\ llm_available' = available
           /\ llm_client' = IF available THEN llm_provider ELSE NoClient
           /\ Startup("menu", calls, IF available THEN {} ELSE {"warning"}, FALSE)
    /\ UNCHANGED instrMem

\* line 406: input() is called outside the try of line 408; EOFError (closed
\* stdin) and KeyboardInterrupt end the program with a traceback
menu_input_raises ==
    /\ ConsoleAt("menu")
    /\ pc' = "crashed"
    /\ UNCHANGED <<fixedVars, llm_client, last_post, reqVars, persistVars>>
    /\ UNCHANGED pureVars

\* lines 386-406: the next iteration of the menu loop; the option's locals
\* are gone
menu_loop ==
    /\ ConsoleAt("option_done")
    /\ pc' = "menu"
    /\ handler' = ""
    /\ calls' = <<>>
    /\ printed' = {}
    /\ typed' = ""
    /\ raised' = "no"
    /\ svc_err' = FALSE
    /\ n_items' = 0
    /\ auto_add' = FALSE
    /\ idx' = 0
    /\ results' = <<>>
    /\ fields' = 0
    /\ successful' = 0
    /\ failed' = 0
    /\ added_count' = 0
    /\ UNCHANGED <<fixedVars, llm_client, last_post, req_options, req_body, req_valid, response, persistVars>>
    /\ UNCHANGED pureVars

\* One menu option has run: what it invoked and printed, and where it goes.
MenuStepWith(newpc, h, cs, msgs, exc, serr, k, auto) ==
    /\ pc' = newpc
    /\ handler' = h
    /\ calls' = cs
    /\ printed' = msgs
    /\ typed' = ""
    /\ raised' = exc
    /\ svc_err' = serr
    /\ n_items' = k
    /\ auto_add' = auto
    /\ idx' = 0
    /\ results' = <<>>
    /\ fields' = 0
    /\ successful' = 0
    /\ failed' = 0
    /\ added_count' = 0
    /\ UNCHANGED <<fixedVars, llm_client, last_post, req_options, req_body, req_valid, response, env_port, llm_available>>
    /\ UNCHANGED pureVars

MenuStep(h, cs, msgs, exc, serr) ==
    MenuStepWith("option_done", h, cs, msgs, exc, serr, 0, FALSE)

\* An exception caught at line 941: "Error: ..." is printed, the loop goes on.
MenuError(h, cs, serr) == MenuStep(h, cs, {"error"}, "body", serr)

\* An option that reads no input and invokes one action (options 1 and 3).
MenuOneCall(h, action) ==
    \E reply \in SvcReplies :
        IF InvokeRaises(reply)
        THEN MenuError(h, <<Call(action, <<>>)>>, TRUE)
        ELSE MenuStep(h, <<Call(action, <<>>)>>, {"result"}, "no", FALSE)

\* lines 409-413
option1 ==
    /\ ConsoleAt("menu")
    /\ MenuOneCall("option1", "deckNames")
    /\ UNCHANGED <<instrDisk, instrMem>>

\* lines 415-418
option2 ==
    /\ ConsoleAt("menu")
    /\ \E input_ok \in BOOLEAN, reply \in SvcReplies :
        LET h == "option2"
            c1 == <<Call("createDeck", <<>>)>>
        IN  IF ~input_ok THEN MenuError(h, <<>>, FALSE)
            ELSE IF InvokeRaises(reply) THEN MenuError(h, c1, TRUE)
            ELSE MenuStep(h, c1, {"result"}, "no", FALSE)
    /\ UNCHANGED <<instrDisk, instrMem>>

\* lines 420-424
option3 ==
    /\ ConsoleAt("menu")
    /\ MenuOneCall("option3", "modelNames")
    /\ UNCHANGED <<instrDisk, instrMem>>

\* lines 426-444: the modelFieldNames failure is caught by the bare except of
\* line 443
option4 ==
    /\ ConsoleAt("menu")
    /\ \E fail \in {"none", "models", "input", "fields"} :
        LET h == "option4"
            c1 == <<Call("modelNames", <<>>)>>
            c2 == c1 \o <<Call("modelFieldNames", <<>>)>>
        IN  IF fail = "models" THEN MenuError(h, c1, TRUE)
            ELSE IF fail = "input" THEN MenuError(h, c1, FALSE)
            ELSE IF fail = "fields" THEN MenuStep(h, c2, {"error"}, "no", TRUE)
            ELSE MenuStep(h, c2, {"result"}, "no", FALSE)
    /\ UNCHANGED <<instrDisk, instrMem>>

\* lines 446-461
option5 ==
    /\ ConsoleAt("menu")
    /\ \E fail \in {"none", "input", "find", "info"}, show \in BOOLEAN :
        LET h == "option5"
            c1 == <<Call("findNotes", <<>>)>>
            c2 == c1 \o <<Call("notesInfo", <<>>)>>
        IN  IF fail = "input" THEN MenuError(h, <<>>, FALSE)
            ELSE IF fail = "find" THEN MenuError(h, c1, TRUE)
            ELSE IF ~show THEN MenuStep(h, c1, {"result"}, "no", FALSE)
            ELSE IF fail = "info" THEN MenuError(h, c2, TRUE)
            ELSE MenuStep(h, c2, {"result"}, "no", FALSE)
    /\ UNCHANGED <<instrDisk, instrMem>>

\* The notes the user types in options 6 and 7: k notes, those of `dups`
\* with the allowDuplicate option (option 7, lines 613-614).
TypedNotes(k, dups) ==
    [i \in 1..k |-> Note(i, IF i \in dups THEN AllowDuplicate ELSE NoOptions)]

\* lines 463-537
option6 ==
    /\ ConsoleAt("menu")
    /\ \E fail \in {"none", "decks", "input", "no_deck", "models", "fields", "can_add"},
          k \in 0..MaxWords :
        LET h == "option6"
            c1 == <<Call("deckNames", <<>>)>>
            c2 == c1 \o <<Call("modelNames", <<>>)>>
            c3 == c2 \o <<Call("modelFieldNames", <<>>)>>
            c4 == c3 \o <<Call("canAddNotes", TypedNotes(k, {}))>>
        IN  IF fail = "decks" THEN MenuError(h, c1, TRUE)
            ELSE IF fail = "input" THEN MenuError(h, c1, FALSE)
            ELSE IF fail = "no_deck" THEN MenuStep(h, c1, {"warning"}, "no", FALSE)
            ELSE IF fail = "models" THEN MenuError(h, c2, TRUE)
            ELSE IF fail = "fields" THEN MenuStep(h, c3, {"error"}, "no", TRUE)
            ELSE IF k = 0 THEN MenuStep(h, c3, {}, "no", FALSE)
            ELSE IF fail = "can_add" THEN MenuError(h, c4, TRUE)
            ELSE MenuStep(h, c4, {"result"}, "no", FALSE)
    /\ UNCHANGED <<instrDisk, instrMem>>

\* lines 539-629: the typed notes are added by one addNotes call (line 623)
option7 ==
    /\ ConsoleAt("menu")
    /\ \E fail \in {"none", "decks", "input", "no_deck", "create", "models",
                    "fields", "add"},
          create \in BOOLEAN, k \in 0..MaxWords :
        \E dups \in SUBSET (1..k) :
        LET h == "option7"
            c1 == <<Call("deckNames", <<>>)>> \o
                  (IF create THEN <<Call("createDeck", <<>>)>> ELSE <<>>)
            c2 == c1 \o <<Call("modelNames", <<>>)>>
            c3 == c2 \o <<Call("modelFieldNames", <<>>)>>
            c4 == c3 \o <<Call("addNotes", TypedNotes(k, dups))>>
        IN  IF fail = "decks" THEN MenuError(h, <<Call("deckNames", <<>>)>>, TRUE)
            ELSE IF fail = "input"
            THEN MenuError(h, <<Call("deckNames", <<>>)>>, FALSE)
            ELSE IF fail = "no_deck"
            THEN MenuStep(h, <<Call("deckNames", <<>>)>>, {"warning"}, "no", FALSE)
            ELSE IF fail = "create" /\ create THEN MenuError(h, c1, TRUE)
            ELSE IF fail = "models" THEN MenuError(h, c2, TRUE)
            ELSE IF fail = "fields" THEN MenuStep(h, c3, {"error"}, "no", TRUE)
            ELSE IF k = 0 THEN MenuStep(h, c3, {}, "no", FALSE)
            ELSE IF fail = "add" THEN MenuError(h, c4, TRUE)
            ELSE MenuStep(h, c4, {"result"}, "no", FALSE)
    /\ UNCHANGED <<instrDisk, instrMem>>

\* What the user can type at an instructions prompt.
TypedInstructions == {StrEmpty, StrPlain, StrJson}

\* lines 676-689: the instructions prompt of option 8.  The model's entry is
\* replaced when the user asks for it (any text, the empty one included) or,
\* for a model without entry, when the text is not empty.
Option8Instructions(doc, model_name, update, text) ==
    IF doc[model_name] # Absent
    THEN (IF update THEN [doc EXCEPT ![model_name] = text] ELSE doc)
    ELSE (IF text # StrEmpty THEN [doc EXCEPT ![model_name] = text] ELSE doc)

\* lines 631-707: option 8 up to its loop
option8_setup ==
    /\ ConsoleAt("menu")
    /\ llm_available
    /\ \E fail \in {"none", "decks", "input", "no_deck", "create", "models",
                    "fields", "late_input"},
          create \in BOOLEAN, model_name \in ModelNames, update \in BOOLEAN,
          text \in TypedInstructions, auto \in BOOLEAN :
        LET h == "option8"
            c0 == <<Call("deckNames", <<>>)>>
            c1 == c0 \o (IF create THEN <<Call("createDeck", <<>>)>> ELSE <<>>)
            c2 == c1 \o <<Call("modelNames", <<>>)>>
            c3 == c2 \o <<Call("modelFieldNames", <<>>)>>
            doc == Option8Instructions(instrMem, model_name, update, text)
        IN  IF fail \in {"decks", "input", "no_deck"} \/ (fail = "create" /\ create)
               \/ fail \in {"models", "fields"}
            THEN /\ UNCHANGED <<instrDisk, instrMem>>
                 /\ IF fail = "decks" THEN MenuError(h, c0, TRUE)
                    ELSE IF fail = "input" THEN MenuError(h, c0, FALSE)
                    ELSE IF fail = "no_deck"
                    THEN MenuStep(h, c0, {"warning"}, "no", FALSE)
                    ELSE IF fail = "create" THEN MenuError(h, c1, TRUE)
                    ELSE IF fail = "models" THEN MenuError(h, c2, TRUE)
                    ELSE MenuStep(h, c3, {"error"}, "no", TRUE)
            ELSE /\ instrMem' = doc
                 /\ instrDisk' = IF doc # instrMem THEN doc ELSE instrDisk
                 /\ IF fail = "late_input"
                    THEN MenuError(h, c3, FALSE)
                    ELSE MenuStepWith("opt8_loop", h, c3, {}, "no", FALSE, 0, auto)

\* str.lower() on the answers the prompts compare (lines 753, 760, 779)
Lower(s) == IF s = "Y" THEN "y" ELSE IF s = "E" THEN "e" ELSE IF s = "N" THEN "n" ELSE s

\* What the user can type at the confirmation prompts.
TypedAnswers == {"y", "Y", "n", "e"}

Option8SubmitsOnEdit(auto, can_add, answer) ==
    IF auto /\ can_add THEN TRUE ELSE Lower(answer) \in {"y", "e"}

\* lines 746-786: whether the note of this word is sent to addNotes
Option8Submits(auto, can_add, answer) ==
    IF auto /\ can_add THEN TRUE
    ELSE IF can_add THEN Lower(answer) \in {"y", "e"}
    ELSE Lower(answer) = "y"

\* line 780
Option8Options(can_add) == IF can_add THEN NoOptions ELSE AllowDuplicate

\* One iteration of option 8's loop leaves the loop position, the counter,
\* the call log and what was printed.
Option8Step(newpc, added, cs, msgs, exc, serr, ans) ==
    /\ pc' = newpc
    /\ typed' = ans
    /\ idx' = idx + 1
    /\ added_count' = added
    /\ calls' = cs
    /\ printed' = msgs
    /\ raised' = exc
    /\ svc_err' = (svc_err \/ serr)
    /\ UNCHANGED <<fixedVars, llm_client, last_post, req_options, req_body, req_valid, handler, n_items, results, fields, successful, failed,
                   auto_add, response, persistVars>>
    /\ UNCHANGED pureVars

\* lines 709-789: one word of option 8
option8_word ==
    /\ ConsoleAt("opt8_loop")
    /\ idx < MaxTyped
    /\ \E fail \in {"none", "word_input", "generate", "can_add", "answer_input", "add"},
          can_add \in BOOLEAN, answer \in TypedAnswers, note_id \in {0, 1} :
        LET i == idx + 1
            check(a) == Append(calls, Answered("canAddNotes", <<Note(i, NoOptions)>>, a))
            c1 == check(CanAddAnswer(can_add))
            add(a) == Append(c1, Answered("addNotes",
                                          <<Note(i, Option8Options(can_add))>>, a))
            asked == ~(auto_add /\ can_add)
            ans == IF asked THEN answer ELSE ""
        IN  IF fail = "word_input"
            THEN Option8Step("option_done", added_count, calls, {"error"}, "body", FALSE, "")
            ELSE IF fail = "generate"
            THEN Option8Step("opt8_loop", added_count, calls, {"error"}, "no", FALSE, "")
            ELSE IF fail = "can_add"
            THEN Option8Step("opt8_loop", added_count, check("raised"), {"error"}, "no",
                             TRUE, "")
            ELSE IF fail = "answer_input" /\ asked
            THEN Option8Step("opt8_loop", added_count, c1, {"error"}, "no", FALSE, "")
            ELSE IF ~Option8Submits(auto_add, can_add, answer)
            THEN Option8Step("opt8_loop", added_count, c1, {}, "no", FALSE, ans)
            ELSE IF fail = "add"
            THEN Option8Step("opt8_loop", added_count, add("raised"), {"error"}, "no",
                             TRUE, ans)
            ELSE IF note_id # 0
            THEN Option8Step("opt8_loop", added_count + 1, add("id"), {"added"}, "no",
                             FALSE, ans)
            ELSE Option8Step("opt8_loop", added_count, add("null"), {"failed"}, "no",
                             FALSE, ans)

\* lines 710-712 and 791: the empty word ends the loop
option8_finish ==
    /\ ConsoleAt("opt8_loop")
    /\ pc' = "option_done"
    /\ printed' = {"summary"}
    /\ UNCHANGED <<fixedVars, llm_client, last_post, req_options, req_body, req_valid, handler, n_items, idx, results, fields, successful,
                   failed, added_count, auto_add, response, raised, calls,
                   svc_err, typed, persistVars>>
    /\ UNCHANGED pureVars

\* lines 793-826 and 295-316: option 9 and batch_import_from_file up to its loop
option9_setup ==
    /\ ConsoleAt("menu")
    /\ llm_available
    /\ \E fail \in {"none", "input", "decks", "models", "no_file", "fields"},
          k \in 0..MaxWords :
        LET h == "batch_import_from_file"
            c1 == <<Call("deckNames", <<>>)>>
            c2 == c1 \o <<Call("modelNames", <<>>)>>
            c3 == c2 \o <<Call("modelFieldNames", <<>>)>>
        IN  IF fail = "input" THEN MenuError(h, <<>>, FALSE)
            ELSE IF fail = "decks" THEN MenuError(h, c1, TRUE)
            ELSE IF fail = "models" THEN MenuError(h, c2, TRUE)
            ELSE IF fail = "no_file" THEN MenuStep(h, c2, {"error"}, "no", FALSE)
            ELSE IF k = 0 THEN MenuStep(h, c2, {"result"}, "no", FALSE)
            ELSE IF fail = "fields" THEN MenuStep(h, c3, {"error"}, "no", TRUE)
            ELSE MenuStepWith("import_loop", h, c3, {}, "no", FALSE, k, FALSE)
    /\ UNCHANGED <<instrDisk, instrMem>>

\* lines 340-346: an item that was not added counts as failed
ImportFailed(f) == f + 1

\* lines 318-346: one word of batch_import_from_file
batch_import_item ==
    /\ ConsoleAt("import_loop")
    /\ idx < n_items
    /\ \E fail \in {"none", "generate", "add"}, note_id \in {0, 1} :
        LET i == idx + 1
            c1 == Append(calls, Answered("addNotes", <<Note(i, NoOptions)>>,
                                         IF fail = "add" THEN "raised"
                                         ELSE NoteIdAnswer(note_id)))
            added == fail = "none" /\ note_id # 0
        IN  /\ idx' = i
            /\ calls' = IF fail = "generate" THEN calls ELSE c1
            /\ svc_err' = (svc_err \/ fail = "add")
            /\ successful' = IF added THEN successful + 1 ELSE successful
            /\ failed' = IF added THEN failed ELSE ImportFailed(failed)
            /\ typed' = ""
            /\ printed' = {IF added THEN "added"
                            ELSE IF fail = "none" THEN "failed" ELSE "error"}
    /\ UNCHANGED <<fixedVars, llm_client, last_post, req_options, req_body, req_valid, pc, handler, n_items, results, fields, added_count,
                   auto_add, response, raised, persistVars>>
    /\ UNCHANGED pureVars

\* line 348
batch_import_finish ==
    /\ ConsoleAt("import_loop")
    /\ idx = n_items
    /\ pc' = "option_done"
    /\ printed' = {"summary"}
    /\ typed' = ""
    /\ UNCHANGED <<fixedVars, llm_client, last_post, req_options, req_body, req_valid, handler, n_items, idx, results, fields, successful,
                   failed, added_count, auto_add, response, raised, calls,
                   svc_err, persistVars>>
    /\ UNCHANGED pureVars

\* lines 845-860: sub-option 1 stores the typed text for the model
option10_set ==
    /\ ConsoleAt("menu")
    /\ llm_available
    /\ \E fail \in {"none", "input", "models"}, model_name \in ModelNames,
          text \in TypedInstructions :
        LET h == "option10_set"
            c1 == <<Call("modelNames", <<>>)>>
            doc == [instrMem EXCEPT ![model_name] = text]
        IN  IF fail = "input"
            THEN MenuError(h, <<>>, FALSE) /\ UNCHANGED <<instrDisk, instrMem>>
            ELSE IF fail = "models"
            THEN MenuError(h, c1, TRUE) /\ UNCHANGED <<instrDisk, instrMem>>
            ELSE /\ MenuStep(h, c1, {"result"}, "no", FALSE)
                 /\ instrMem' = doc
                 /\ instrDisk' = doc

\* lines 862-869: sub-option 2 removes the model's entry
option10_remove ==
    /\ ConsoleAt("menu")
    /\ llm_available
    /\ \E fail \in {"none", "input"}, model_name \in ModelNames :
        LET h == "option10_remove"
            doc == [instrMem EXCEPT ![model_name] = Absent]
        IN  IF fail = "input"
            THEN MenuError(h, <<>>, FALSE) /\ UNCHANGED <<instrDisk, instrMem>>
            ELSE IF instrMem[model_name] = Absent
            THEN MenuStep(h, <<>>, {"result"}, "no", FALSE)
                 /\ UNCHANGED <<instrDisk, instrMem>>
            ELSE /\ MenuStep(h, <<>>, {"result"}, "no", FALSE)
                 /\ instrMem' = doc
                 /\ instrDisk' = doc

\* lines 828-844 and 871-878: option 10 with sub-option 3, 4 or anything else
option10_view ==
    /\ ConsoleAt("menu")
    /\ llm_available
    /\ \E input_ok \in BOOLEAN :
        IF input_ok
        THEN MenuStep("option10_view", <<>>, {"result"}, "no", FALSE)
        ELSE MenuError("option10_view", <<>>, FALSE)
    /\ UNCHANGED <<instrDisk, instrMem>>

\* lines 880-932: the configuration settings; save_config writes anki_config.json
option_settings ==
    /\ ConsoleAt("menu")
    /\ \E fail \in {"none", "input", "save"} :
        IF fail = "none"
        THEN MenuStep("option_settings", <<>>, {"result"}, "no", FALSE)
        ELSE MenuError("option_settings", <<>>, FALSE)
    /\ UNCHANGED <<instrDisk, instrMem>>

\* lines 934-936
option_exit ==
    /\ ConsoleAt("menu")
    /\ MenuStepWith("exited", "option_exit", <<>>, {"result"}, "no", FALSE, 0, FALSE)
    /\ UNCHANGED <<instrDisk, instrMem>>

\* lines 938-939
option_invalid ==
    /\ ConsoleAt("menu")
    /\ MenuStep("option_invalid", <<>>, {"invalid"}, "no", FALSE)
    /\ UNCHANGED <<instrDisk, instrMem>>

-----------------------------------------------------------------------------
(* The program: a web process or a console process *)

InitWeb ==
    /\ front = "web"
    /\ pc = "idle"
    /\ IdleRequest
    /\ instrDisk \in Docs
    /\ instrMem = EmptyDoc
    /\ env_port \in PortValues
    /\ llm_available = FALSE
    /\ llm_client = NoClient
    /\ last_post = NotPosted

\* main() before line 351
InitConsole ==
    /\ front = "console"
    /\ pc = "start"
    /\ IdleRequest
    /\ instrDisk \in Docs
    /\ instrMem = EmptyDoc
    /\ env_port = "8765"
    /\ llm_available = FALSE
    /\ llm_client = NoClient
    /\ last_post = NotPosted

Init ==
    /\ gn_pc = "none"
    /\ gn_word = <<>>
    /\ gn_model_name = ""
    /\ gn_llm = [ok |-> FALSE, fields |-> NoFields]
    /\ gn_result = NoFields
    /\ invoke_call = NoInvoke
    /\ search_call = NoSearch
    /\ posting = NoPosting
    /\ env_call = NoEnvCall
    /\ llm_provider = "gemini"
    /\ api_key \in BOOLEAN
    /\ (InitWeb \/ InitConsole)

NextWeb ==
    \/ test_connection
    \/ get_decks
    \/ get_models
    \/ get_model_fields
    \/ get_model_instructions
    \/ update_model_instructions
    \/ generate_note
    \/ add_note
    \/ add_duplicate_note
    \/ get_settings
    \/ update_settings
    \/ test_anki_connection
    \/ search_notes
    \/ delete_notes
    \/ update_note
    \/ batch_generate_start
    \/ batch_generate_item
    \/ batch_generate_finish
    \/ batch_generate_preview_start
    \/ batch_generate_preview_item
    \/ batch_generate_preview_finish
    \/ batch_add_selected_start
    \/ batch_add_selected_item
    \/ batch_add_selected_finish
    \/ next_request

NextConsole ==
    \/ main_load_config
    \/ main_connect
    \/ main_load_model_instructions
    \/ main_llm_check
    \/ menu_input_raises
    \/ menu_loop
    \/ option1
    \/ option2
    \/ option3
    \/ option4
    \/ option5
    \/ option6
    \/ option7
    \/ option8_setup
    \/ option8_word
    \/ option8_finish
    \/ option9_setup
    \/ batch_import_item
    \/ batch_import_finish
    \/ option10_set
    \/ option10_remove
    \/ option10_view
    \/ option_settings
    \/ option_exit
    \/ option_invalid

Next == NextWeb \/ NextConsole

Spec == Init /\ [][Next]_vars


-----------------------------------------------------------------------------
(* The LLM features under every provider configuration: the console's      *)
(* startup with the options that need the LLM client, and the web handlers  *)
(* that build one.                                                          *)

InitProviders ==
    /\ gn_pc = "none"
    /\ gn_word = <<>>
    /\ gn_model_name = ""
    /\ gn_llm = [ok |-> FALSE, fields |-> NoFields]
    /\ gn_result = NoFields
    /\ invoke_call = NoInvoke
    /\ search_call = NoSearch
    /\ posting = NoPosting
    /\ env_call = NoEnvCall
    /\ llm_provider \in Providers
    /\ api_key \in BOOLEAN
    /\ \/ front = "web" /\ pc = "idle"
       \/ front = "console" /\ pc = "start"
    /\ IdleRequest
    /\ instrDisk = EmptyDoc
    /\ instrMem = EmptyDoc
    /\ env_port = "8765"
    /\ llm_available = FALSE
    /\ llm_client = NoClient
    /\ last_post = NotPosted

NextProviders ==
    \/ main_load_config
    \/ main_connect
    \/ main_load_model_instructions
    \/ main_llm_check
    \/ menu_loop
    \/ option9_setup
    \/ batch_import_item
    \/ batch_import_finish
    \/ option_exit
    \/ generate_note
    \/ batch_generate_start
    \/ batch_generate_item
    \/ batch_generate_finish
    \/ batch_generate_preview_start
    \/ batch_generate_preview_item
    \/ batch_generate_preview_finish
    \/ next_request

SpecProviders == InitProviders /\ [][NextProviders]_vars

-----------------------------------------------------------------------------
(* Two POST /api/model_instructions requests served concurrently.           *)

InitConcurrent ==
    /\ NoFrontEnd
    /\ invoke_call = NoInvoke
    /\ search_call = NoSearch
    /\ env_call = NoEnvCall
    /\ \E doc \in Docs, bodies \in [PostIds -> [model_name : ModelNames,
                                                 instruction : InstrValues]] :
        posting = [file |-> "ok", doc |-> doc,
                   reqs |-> [p \in PostIds |->
                                PostReq("start", bodies[p].model_name,
                                        bodies[p].instruction)]]

PostStep(p, req, file, doc) ==
    /\ posting' = [file |-> file, doc |-> doc,
                   reqs |-> [q \in PostIds |->
                                IF q = p THEN req
                                ELSE IF req.pc = "done" /\ req.code = 200
                                        /\ posting.reqs[q].pc = "open"
                                THEN [posting.reqs[q] EXCEPT !.clobbered = TRUE]
                                ELSE posting.reqs[q]]]
    /\ UNCHANGED <<gnVars, invoke_call, search_call, env_call, fixedVars, pc,
                   reqVars, persistVars, llm_client, last_post>>

\* anki_interactive.py 278-284 called at app.py 96, 101 and 105:
\* load_model_instructions and the assignment to instructions[model_name].
\* json.load raises JSONDecodeError on a file that is being rewritten; in the
\* string branch that exception, like the one of json.loads(instruction),
\* leads to the except clause of line 103, which loads once more and stores
\* the plain string.
post_load(p) ==
    LET req == posting.reqs[p]
        readable == posting.file = "ok"
        second == req.pc = "retry"
        stored == IF second THEN req.instruction
                  ELSE StoredInstruction(req.instruction)
    IN  /\ req.pc \in {"start", "retry"}
        /\ IF ~second /\ IsStr(req.instruction)
              /\ (~readable \/ ~JsonLoadsOk(req.instruction))
           THEN PostStep(p, [req EXCEPT !.pc = "retry"], posting.file, posting.doc)
           ELSE IF ~readable
           THEN PostStep(p, [req EXCEPT !.pc = "done", !.code = 500],
                         posting.file, posting.doc)
           ELSE PostStep(p, [req EXCEPT !.pc = "loaded",
                                        !.instructions =
                                            UpdatedInstructions(posting.doc,
                                                                req.model_name, stored)],
                         posting.file, posting.doc)

\* anki_interactive.py 288: open("model_instructions.json", 'w') truncates
post_open(p) ==
    LET req == posting.reqs[p]
    IN  /\ req.pc = "loaded"
        /\ PostStep(p, [req EXCEPT !.pc = "open"], "empty", posting.doc)

\* anki_interactive.py 289 and app.py 111-113: json.dump, close, respond.
\* When another request wrote the file since this one opened it, the bytes
\* of this document land over the other one: the file holds this document,
\* or this document followed by the tail of the longer one.
post_dump(p) ==
    LET req == posting.reqs[p]
    IN  /\ req.pc = "open"
        /\ \E file \in {"ok", "garbage"} :
            /\ file = "garbage" => req.clobbered
            /\ PostStep(p, [req EXCEPT !.pc = "done", !.code = 200],
                        file, req.instructions)

NextConcurrent ==
    \/ \E p \in PostIds : post_load(p)
    \/ \E p \in PostIds : post_open(p)
    \/ \E p \in PostIds : post_dump(p)

SpecConcurrent == InitConcurrent /\ [][NextConcurrent]_vars

-----------------------------------------------------------------------------
(* One POST /api/settings over the .env file it finds.                      *)

InitSettings ==
    /\ NoFrontEnd
    /\ invoke_call = NoInvoke
    /\ search_call = NoSearch
    /\ posting = NoPosting
    /\ \E lines \in EnvFiles, data \in SettingsBodies :
        env_call = [NoEnvCall EXCEPT !.pc = "call", !.before = lines,
                                     !.lines = lines, !.data = data]

\* lines 247-304: the file is read, the request's variables are set, and
\* every variable is written back as key="value"
settings_rewrite ==
    /\ env_call.pc = "call"
    /\ env_call' =
          [env_call EXCEPT
              !.pc = "done",
              !.code = 200,
              !.lines = WriteEnv(UpdateEnv(ReadEnv(env_call.lines,
                                                   Len(env_call.lines)),
                                           env_call.data, <<llm_provider>>))]
    /\ UNCHANGED <<gnVars, invoke_call, search_call, posting, fixedVars, pc,
                   reqVars, persistVars, llm_client, last_post>>

\* lines 306-307: an exception before the file is opened for writing
\* (request.json is no object, os.environ refuses a value)
settings_raises ==
    /\ env_call.pc = "call"
    /\ env_call' = [env_call EXCEPT !.pc = "done", !.code = 500]
    /\ UNCHANGED <<gnVars, invoke_call, search_call, posting, fixedVars, pc,
                   reqVars, persistVars, llm_client, last_post>>

NextSettings == settings_rewrite \/ settings_raises

SpecSettings == InitSettings /\ [][NextSettings]_vars
-----------------------------------------------------------------------------
(* Claims about generate_note's 'suggest' repair (checked under SpecSuggest) *)

\* The call returned for the THPTQG template with a 'suggest' entry.
SuggestReturned ==
    /\ gn_pc = "returned"
    /\ gn_model_name = THPTQG
    /\ "suggest" \in DOMAIN gn_result

\* The repair branch was taken: the pattern's non-space length differs from len(word).
RepairRan ==
    /\ SuggestReturned
    /\ Len(RemoveSpaces(gn_llm.fields["suggest"])) # Len(gn_word)

NumSpaces(s) == Len(s) - Len(RemoveSpaces(s))

\* C1 as stated: for every word and every LLM pattern, the returned 'suggest'
\* has length exactly len(word).
C1_SuggestLenIsWordLen ==
    SuggestReturned => Len(gn_result["suggest"]) = Len(gn_word)

\* C1 amended: the returned 'suggest' has length exactly len(word) whenever the
\* pattern's non-space length differed from len(word) (the repair ran);
\* otherwise the LLM's pattern is returned unchanged, and its length is
\* len(word) plus the number of spaces it contains.
C1_SuggestLenRepaired ==
    SuggestReturned =>
        IF RepairRan
        THEN Len(gn_result["suggest"]) = Len(gn_word)
        ELSE /\ gn_result["suggest"] = gn_llm.fields["suggest"]
             /\ Len(gn_result["suggest"])
                  = Len(gn_word) + NumSpaces(gn_llm.fields["suggest"])

C1_Witness ==
    /\ RepairRan
    /\ Len(gn_word) = 3
    /\ Len(gn_llm.fields["suggest"]) = 4
    /\ Len(gn_result["suggest"]) = 3

\* The replacement the claim describes: first character, len(word)-2
\* underscores, last character (nothing for the empty word).
FirstUnderscoresLast(word) ==
    IF Len(word) = 0
    THEN <<>>
    ELSE <<word[1]>> \o Underscores(Len(word) - 2) \o <<word[Len(word)]>>

\* C2 as stated: whenever the pattern's non-space length differs from
\* len(word), 'suggest' becomes first character + (len(word)-2) underscores +
\* last character, for every word, one- and two-character words included.
C2_RepairIsFirstUnderscoresLast ==
    RepairRan => gn_result["suggest"] = FirstUnderscoresLast(gn_word)

\* C2 amended: whenever the pattern's non-space length differs from len(word),
\* 'suggest' becomes first character + (len(word)-2) underscores + last
\* character for every word of two or more characters, and the word itself for
\* a word of fewer than two characters.
C2_RepairShortWordKept ==
    RepairRan =>
        IF Len(gn_word) >= 2
        THEN gn_result["suggest"] = FirstUnderscoresLast(gn_word)
        ELSE gn_result["suggest"] = gn_word

C2_Witness ==
    /\ RepairRan
    /\ Len(gn_word) = 1
    /\ gn_result["suggest"] = gn_word


\* C17: for model 'THPTQG form', whenever the result returned by
\* LLMClient.generate_note contains a 'Word' field, that field equals the
\* input word, whatever the LLM produced, results without a 'suggest' field
\* included.
C17_WordFieldIsInputWord ==
    (gn_pc = "returned" /\ gn_model_name = THPTQG /\ "Word" \in DOMAIN gn_result)
        => gn_result["Word"] = gn_word
-----------------------------------------------------------------------------
(* Part 4: properties of the handlers and of the console program (Spec).    *)

WebResponded(h) == front = "web" /\ pc = "responded" /\ handler = h

\* The handler's loop was entered: the code before it raised nothing.
LoopEntered == raised # "body"

ImportDone ==
    /\ front = "console" /\ pc = "option_done"
    /\ handler = "batch_import_from_file" /\ n_items > 0
    /\ printed = {"summary"}

\* C3: in batch_generate and batch_import_from_file, once the loop over the
\* words is entered, every word is counted exactly once: after i words the
\* handler holds i results (i = successful + failed in the console), and the
\* reported counts satisfy successful + failed = number of words, with
\* summary.total = len(words) = len(results) in batch_generate.
C3_BatchCountsSumToInput ==
    /\ (front = "web" /\ pc = "loop" /\ handler = "batch_generate")
          => Len(results) = idx
    /\ (WebResponded("batch_generate") /\ LoopEntered)
          => /\ "summary" \in response.keys
             /\ response.total = n_items
             /\ response.nresults = n_items
             /\ response.successful + response.failed = n_items
    /\ (front = "console" /\ pc = "import_loop") => successful + failed = idx
    /\ ImportDone => successful + failed = n_items

\* A batch_generate run over three words that met an LLM failure, a
\* duplicate and a successful insertion.
C3_Witness ==
    /\ WebResponded("batch_generate")
    /\ n_items = 3
    /\ response.successful = 1
    /\ response.failed = 2
    /\ \E i \in 1..Len(results) : results[i].is_duplicate
    /\ \E i \in 1..Len(results) : ~results[i].has_note /\ ~results[i].success

\* C4: for every list of items submitted to batch_add_selected, items that
\* lack a 'note' or 'word' key included, the response carries a summary with
\* total = number of submitted items and successful + failed = total.
C4_AddSelectedSummary ==
    (WebResponded("batch_add_selected") /\ LoopEntered)
        => /\ "summary" \in response.keys
           /\ response.total = n_items
           /\ response.successful + response.failed = response.total

\* C5: in every batch loop a failure on one item never prevents the
\* following items from being processed: when the handler is done every item
\* was processed, in input order, and left exactly one result entry (one
\* counter increment in batch_import_from_file).
C5_EveryItemProcessedOnce ==
    /\ (front = "web" /\ pc = "responded" /\ LoopEntered
        /\ handler \in {"batch_generate", "batch_generate_preview",
                        "batch_add_selected"})
          => /\ idx = n_items
             /\ Len(results) = n_items
             /\ \A i \in 1..Len(results) : results[i].item = i
    /\ ImportDone => idx = n_items /\ successful + failed = n_items

\* C6: the console program ends only through sys.exit(1) at the startup
\* connection test or through the Exit option; no other failure ends it.
C6_ConsoleEndsOnlyByExit ==
    front = "console" => pc # "crashed"

\* An exception was raised while the web handler ran: one that its outermost
\* except caught, or a failed service call.
WebFailure == front = "web" /\ pc = "responded" /\ (raised # "no" \/ svc_err)

StatusHandlers == {"test_connection", "test_anki_connection"}

LoopHandlers == {"batch_generate", "batch_generate_preview", "batch_add_selected"}

C8_DeleteUpdateSucceed ==
    (/\ front = "web" /\ pc = "responded"
     /\ handler \in {"delete_notes", "update_note"}
     /\ ConfigLoads /\ req_valid /\ ~svc_err)
        => /\ response.status = "success"
           /\ Len(calls) = 1

\* C9: the persisted model-instructions document is changed only by an
\* explicit update: POST /api/model_instructions, the console's set and
\* remove actions, and the instruction prompt of option 8.
C9_InstructionsChangedOnlyByUpdates ==
    [][instrDisk' # instrDisk
          => \/ handler' = "update_model_instructions"
             \/ handler' \in {"option10_set", "option10_remove"}
             \/ (handler' = "option8" /\ pc = "menu")]_vars

\* GET /api/model_instructions answered with instructions parsed from a
\* stored string, which differ from the persisted document.
C9_Witness ==
    /\ WebResponded("get_model_instructions")
    /\ response.code = 200
    /\ response.instructions # instrDisk
    /\ \E m \in ModelNames : instrDisk[m] = StrJson

\* The positions of the log where the note built for item i is inserted.
AddCallsOf(i) ==
    {j \in 1..Len(calls) :
        /\ calls[j].action = "addNotes"
        /\ \E m \in 1..Len(calls[j].notes) : calls[j].notes[m].item = i}

\* C10: within one request or one console iteration each constructed note
\* is sent for insertion at most once, also after a failure or a null id.
C10_NoteInsertedAtMostOnce ==
    /\ \A i \in 0..(MaxWords + 1) : Cardinality(AddCallsOf(i)) <= 1
    /\ \A j \in 1..Len(calls) : \A m1, m2 \in 1..Len(calls[j].notes) :
          calls[j].notes[m1].item = calls[j].notes[m2].item => m1 = m2

\* add_note got a null note id and answered 400 after a single insertion.
C10_Witness ==
    /\ WebResponded("add_note")
    /\ response.code = 400
    /\ Cardinality(AddCallsOf(1)) = 1

\* The credentials of the configured provider are available: openai and
\* gemini need their API key, the custom endpoint works with its default key.
CredentialsAvailable == llm_provider = "custom" \/ api_key

ConsoleStarted ==
    front = "console"
    /\ pc \notin {"start", "connect", "load_instructions", "llm_check", "crashed", "exit1"}

\* A web handler went past the construction of its LLMClient.
WebClientBuilt ==
    /\ front = "web"
    /\ handler \in {"generate_note", "batch_generate", "batch_generate_preview"}
    /\ \/ pc = "loop"
       \/ pc = "responded" /\ response.code = 200

\* C11: after POST /api/settings succeeded with a value for anki_port, the
\* following GET /api/settings succeeds and returns exactly that value, a
\* non-numeric one included.
C11_SettingsRoundTrip ==
    (WebResponded("get_settings") /\ last_post # NotPosted)
        => /\ response.code = 200
           /\ response.port = last_post

\* C12: each of openai, gemini and custom is selectable in both front ends:
\* with the provider's credentials available the console enables the LLM
\* features with a client for that provider, and a web handler that
\* generates builds its LLMClient for that provider and dispatches to that
\* provider's backend.
C12_ProviderSelectable ==
    /\ (ConsoleStarted /\ CredentialsAvailable)
          => llm_available /\ llm_client = llm_provider
    /\ WebClientBuilt
          => Backend(llm_client) = Backend(llm_provider)

\* The calls the running web handler has sent to the flashcard service.
CallsWith(action) == {k \in 1..Len(calls) : calls[k].action = action}

\* The item (word position) a single-note call is about.
ItemOf(call) == call.notes[1].item

\* C14: the preview operations never insert anything: whatever the request
\* and the service and LLM replies, /api/generate_note and
\* /api/batch_generate_preview send only modelFieldNames and canAddNotes to
\* the flashcard service, never addNotes.
C14_PreviewNeverInserts ==
    (front = "web" /\ handler \in {"generate_note", "batch_generate_preview"})
        => \A k \in 1..Len(calls) :
              calls[k].action \in {"modelFieldNames", "canAddNotes"}

\* A preview over two words or more that checked every word and found one
\* that can be added and one duplicate.
C14_Witness ==
    /\ WebResponded("batch_generate_preview")
    /\ n_items >= 2
    /\ \E k \in CallsWith("canAddNotes") : calls[k].answer = "true"
    /\ \E k \in CallsWith("canAddNotes") : calls[k].answer = "false"
    /\ \E i \in 1..Len(results) : results[i].status = "ready"
    /\ \E i \in 1..Len(results) : results[i].status = "duplicate"

\* C15: in batch_generate, addNotes is called for a word only right after
\* canAddNotes answered true for that same note; a word whose canAddNotes
\* answer is false is never sent to addNotes and is reported with
\* is_duplicate = true, success = false and note_id = null; every entry with
\* is_duplicate = true has success = false.
C15_AddOnlyAfterCanAdd ==
    (front = "web" /\ handler = "batch_generate")
        => /\ \A k \in CallsWith("addNotes") :
                /\ k > 1
                /\ calls[k - 1].action = "canAddNotes"
                /\ calls[k - 1].notes = calls[k].notes
                /\ calls[k - 1].answer = "true"
           /\ \A k \in CallsWith("canAddNotes") :
                calls[k].answer = "false"
                    => /\ \A j \in CallsWith("addNotes") :
                            ItemOf(calls[j]) # ItemOf(calls[k])
                       /\ ItemOf(calls[k]) <= Len(results)
                       /\ results[ItemOf(calls[k])].is_duplicate
                       /\ ~results[ItemOf(calls[k])].success
                       /\ results[ItemOf(calls[k])].note_id = 0
           /\ \A i \in 1..Len(results) :
                results[i].is_duplicate => ~results[i].success

\* A batch_generate run that reported a duplicate and inserted another word.
C15_Witness ==
    /\ WebResponded("batch_generate")
    /\ \E k \in CallsWith("canAddNotes") : calls[k].answer = "false"
    /\ \E k \in CallsWith("addNotes") : calls[k].answer = "id"
    /\ \E i \in 1..Len(results) : results[i].is_duplicate
    /\ \E i \in 1..Len(results) : results[i].success

\* C16: in batch_generate, the result entry of a word whose LLM generation
\* failed contains no generated field content: its 'fields' is the
\* {'Error': message} entry (0) and never the fields generated for an earlier
\* word of the batch; an entry carries its own word's fields or none.
C16_FailedEntryHasNoFields ==
    (front = "web" /\ handler = "batch_generate")
        => \A i \in 1..Len(results) :
              results[i].fields \in {0, results[i].item}

\* C18: /api/add_note sets allowDuplicate only when the submitted note has
\* no or empty options and canAddNotes answered false for it; a note that
\* arrives with non-empty options goes to addNotes with its options unchanged
\* and without a canAddNotes call; a note that canAddNotes accepts goes to
\* addNotes with the options it arrived with.
C18_AllowDuplicateOnlyForRefused ==
    (front = "web" /\ handler = "add_note")
        => /\ Len(calls) <= 2
           /\ \A k \in CallsWith("canAddNotes") :
                /\ k = 1
                /\ req_options \in {NoOptions, EmptyOptions}
                /\ calls[k].notes = <<Note(1, req_options)>>
           /\ \A k \in CallsWith("addNotes") :
                LET sent == calls[k].notes[1].options
                IN  /\ Len(calls[k].notes) = 1
                    /\ sent # req_options
                          => /\ sent = AllowDuplicate
                             /\ req_options \in {NoOptions, EmptyOptions}
                             /\ k = 2
                             /\ calls[1].action = "canAddNotes"
                             /\ calls[1].answer = "false"
                    /\ req_options \notin {NoOptions, EmptyOptions}
                          => /\ sent = req_options
                             /\ CallsWith("canAddNotes") = {}
                    /\ (k = 2 /\ calls[1].answer = "true") => sent = req_options
                    /\ (k = 2 /\ calls[1].answer = "false") => sent = AllowDuplicate

\* An add_note request whose note came without options, was refused by
\* canAddNotes and was then inserted with allowDuplicate.
C18_Witness ==
    /\ WebResponded("add_note")
    /\ req_options = NoOptions
    /\ Len(calls) = 2
    /\ calls[1].action = "canAddNotes" /\ calls[1].answer = "false"
    /\ calls[2].action = "addNotes" /\ calls[2].answer = "id"
    /\ calls[2].notes = <<Note(1, AllowDuplicate)>>
    /\ response.code = 200

Option8Running == front = "console" /\ handler = "option8" /\ pc \in {"opt8_loop", "option_done"}

\* C19: in option 8 a note for which canAddNotes answered false is sent to
\* addNotes only after the user answered 'y' (in either case) to the
\* duplicate prompt, and then with allowDuplicate = true; a note for which
\* canAddNotes answered true is sent only in auto-add mode or after the user
\* answered 'y' or 'e'; added_count equals the number of addNotes calls that
\* returned a non-null id.  `typed` is the answer given for word idx.
C19_Option8SubmitsOnConsent ==
    Option8Running
        => /\ \A k \in CallsWith("addNotes") :
                /\ k > 1
                /\ calls[k - 1].action = "canAddNotes"
                /\ ItemOf(calls[k - 1]) = ItemOf(calls[k])
                /\ calls[k - 1].answer \in {"true", "false"}
                /\ calls[k - 1].answer = "false"
                      => /\ calls[k].notes[1].options = AllowDuplicate
                         /\ ItemOf(calls[k]) = idx => Lower(typed) = "y"
                /\ calls[k - 1].answer = "true"
                      => /\ calls[k].notes[1].options = NoOptions
                         /\ ItemOf(calls[k]) = idx
                               => (auto_add \/ Lower(typed) \in {"y", "e"})
           /\ added_count
                = Cardinality({k \in CallsWith("addNotes") : calls[k].answer = "id"})

\* Option 8 ended after a duplicate the user chose to add and that the
\* service stored, and a second word.
C19_Witness ==
    /\ Option8Running /\ pc = "option_done" /\ printed = {"summary"}
    /\ idx = 2
    /\ added_count >= 1
    /\ \E k \in CallsWith("addNotes") :
          /\ calls[k - 1].answer = "false"
          /\ calls[k].notes[1].options = AllowDuplicate
          /\ calls[k].answer = "id"

\* What the claim says is persisted for a posted instruction: a dict as it
\* is, a string that is valid JSON as its parsed value, any other string as
\* the plain string.
PersistedFor(instruction) ==
    IF instruction = DictD1 THEN DictD1
    ELSE IF instruction = StrJson THEN DictD1
    ELSE instruction

UpdateSucceeded ==
    WebResponded("update_model_instructions") /\ response.code = 200

\* C21: POST /api/model_instructions changes only the entry of the named
\* model: when it succeeds the persisted document maps model_name to the
\* posted instruction (a dict as is, a JSON string as its parsed value, any
\* other string as the plain string) and every other model's entry is what
\* it was before the call; a GET /api/model_instructions returns every
\* stored dict unchanged.
C21_UpdateChangesOnlyNamedModel ==
    [][ /\ (WebIdle /\ UpdateSucceeded')
            => /\ instrDisk'[req_body'.model_name]
                     = PersistedFor(req_body'.instruction)
               /\ \A m \in ModelNames \ {req_body'.model_name} :
                     instrDisk'[m] = instrDisk[m]
        /\ (WebResponded("get_model_instructions")' /\ response'.code = 200)
            => \A m \in ModelNames :
                  instrDisk[m] = DictD1 => response'.instructions[m] = DictD1
      ]_vars

\* A JSON string was posted for one model while the other model had an
\* entry: the parsed value is stored and the other entry is still there.
C21_Witness ==
    /\ UpdateSucceeded
    /\ req_body = Body("Basic", StrJson)
    /\ instrDisk["Basic"] = DictD1
    /\ instrDisk[THPTQG] = StrPlain

-----------------------------------------------------------------------------
(* Part 5: properties of _invoke (SpecInvoke) and of the pagination         *)
(* (SpecSearch).                                                            *)

\* An error that is neither null nor the empty string.
ErrorPresent(reply) == reply.error \notin {Null, JsonValue("str", "")}

ParamsNonEmpty(params) == params \notin {Null, JsonValue("dict", "{}")}

\* C13: _invoke sends the given action with version 6, with params exactly
\* when they are non-empty, and maps the reply to one outcome: it raises with
\* the error text when the reply's error is non-empty and otherwise returns
\* the reply's result unchanged; it never returns when an error is present.
C13_InvokeMapsReply ==
    invoke_call.pc = "done" =>
        LET c == invoke_call
        IN  /\ c.payload.action = c.action
            /\ c.payload.version = 6
            /\ c.payload.has_params <=> ParamsNonEmpty(c.params)
            /\ c.payload.has_params => c.payload.params = c.params
            /\ c.outcome.kind \in {"raise", "return"}
            /\ (c.reply.http = "ok" /\ ErrorPresent(c.reply))
                  => c.outcome = Raise(c.reply.error.text)
            /\ (c.reply.http = "ok" /\ ~ErrorPresent(c.reply))
                  => c.outcome = Return(c.reply.result)
            /\ c.outcome.kind = "return" => ~ErrorPresent(c.reply)

\* A reply that carries both an error and a result made _invoke raise.
C13_Witness ==
    /\ invoke_call.pc = "done"
    /\ invoke_call.reply.http = "ok"
    /\ ErrorPresent(invoke_call.reply)
    /\ invoke_call.reply.result = JsonValue("int", "1")
    /\ invoke_call.outcome.kind = "raise"
    /\ invoke_call.payload.has_params

Min(a, b) == IF a < b THEN a ELSE b

\* The ids at positions (p-1)*per_page .. p*per_page-1 (from 0) of the list.
IdsOfPage(ids, p, per_page) ==
    [j \in 1..(Min(p * per_page, Len(ids)) - (p - 1) * per_page)
        |-> ids[(p - 1) * per_page + j]]

RECURSIVE PagesUpTo(_, _, _)
PagesUpTo(ids, q, per_page) ==
    IF q <= 0 THEN <<>>
    ELSE PagesUpTo(ids, q - 1, per_page) \o PageNoteIds(ids, q, per_page)

\* C20: for per_page >= 1 and T matching notes, pages = ceil(T / per_page),
\* page p in 1..pages returns the ids at positions (p-1)*per_page up to
\* p*per_page-1 in service order, at most per_page of them, the pages 1..pages
\* concatenated are the full id list, and every page beyond pages is empty.
C20_PaginationPartitions ==
    (search_call.pc = "done" /\ search_call.per_page >= 1) =>
        LET c == search_call
            T == Len(c.all_note_ids)
        IN  /\ c.pages * c.per_page >= T
            /\ (c.pages - 1) * c.per_page < T
            /\ (1 <= c.page /\ c.page <= c.pages)
                  => /\ c.page_note_ids = IdsOfPage(c.all_note_ids, c.page, c.per_page)
                     /\ Len(c.page_note_ids) >= 1
                     /\ Len(c.page_note_ids) <= c.per_page
            /\ c.page > c.pages => c.page_note_ids = <<>>
            /\ PagesUpTo(c.all_note_ids, c.pages, c.per_page) = c.all_note_ids

\* The second and last page of three notes, two per page, holds the third.
C20_Witness ==
    /\ search_call.pc = "done"
    /\ Len(search_call.all_note_ids) = 3
    /\ search_call.per_page = 2
    /\ search_call.page = 2
    /\ search_call.pages = 2
    /\ search_call.page_note_ids = <<search_call.all_note_ids[3]>>

-----------------------------------------------------------------------------
(* Properties of the requests that rewrite a file.                          *)

PostsCompleted ==
    \A p \in PostIds : posting.reqs[p].pc = "done" /\ posting.reqs[p].code = 200

\* C22: when two POST /api/model_instructions requests for different model
\* names run concurrently, their load, modify and save steps interleaved in
\* any order, the persisted document holds the new instructions of both
\* models once both requests have completed; no update is lost.
C22_NoUpdateLost ==
    (PostsCompleted /\ posting.reqs[1].model_name # posting.reqs[2].model_name)
        => /\ posting.file = "ok"
           /\ \A p \in PostIds :
                posting.doc[posting.reqs[p].model_name]
                    = posting.reqs[p].instructions[posting.reqs[p].model_name]

\* The variables a request can set, as the claim lists them.
RequestKeys ==
    {<<k>> : k \in {"ANKI_HOST", "ANKI_PORT", "LLM_PROVIDER", "LLM_MODEL",
                    "GEMINI_API_KEY", "OPENAI_API_KEY", "CUSTOM_API_KEY",
                    "CUSTOM_ENDPOINT", "CUSTOM_MODEL"}}

\* The name of an entry, and its value without the pair of quotes around it.
EntryKey(line) == PyStrip(line.key, Whitespace)
EntryValue(line) ==
    LET v == PyStrip(line.raw, Whitespace)
    IN  IF Len(v) >= 2 /\ v[1] \in QuoteChars /\ v[Len(v)] = v[1]
        THEN SubSeq(v, 2, Len(v) - 1)
        ELSE v

\* The entries that give a variable its value: the last one of each name.
Effective(lines) ==
    {i \in 1..Len(lines) :
        /\ lines[i].kind = "entry"
        /\ \A j \in (i + 1)..Len(lines) :
              lines[j].kind = "entry" => EntryKey(lines[j]) # EntryKey(lines[i])}

SettingsRewritten == env_call.pc = "done" /\ env_call.code = 200

\* C23: POST /api/settings preserves every key=value entry of the existing
\* environment file that the request does not name: after the rewrite each
\* such key is still present with the same value (modulo surrounding
\* quotes); only the keys derived from the request may differ.
C23_UnnamedEntriesPreserved ==
    SettingsRewritten
        => \A i \in Effective(env_call.before) :
              EntryKey(env_call.before[i]) \notin RequestKeys
                  => \E j \in Effective(env_call.lines) :
                        /\ EntryKey(env_call.lines[j]) = EntryKey(env_call.before[i])
                        /\ EntryValue(env_call.lines[j])
                              = EntryValue(env_call.before[i])
=============================================================================
